---- MODULE Spec2Model ----
(***************************************************************************)
(* Model of the osin storage adapter for DynamoDB (src/osindynamodb.go).   *)
(*                                                                         *)
(* State: the four DynamoDB tables (client, authorize, access, refresh),   *)
(* the wall clock read by time.Now(), and the return value of the last     *)
(* Storage method that ran.  A Storage value holds no state of its own: it *)
(* is a handle on the tables plus its configuration, so the configuration  *)
(* of the Storage a method is called on is an input of the call.  Every    *)
(* Storage method is one action that covers the whole method body, its     *)
(* DynamoDB requests included; a request may fail, which is an input of    *)
(* the action.                                                             *)
(*                                                                         *)
(* Go values are records tagged with their dynamic type where a dynamic    *)
(* type exists (interfaces); JSON documents are untagged records, so that  *)
(* json.Marshal forgets the dynamic types and json.Unmarshal has to        *)
(* rebuild them from the value it decodes into.                            *)
(*                                                                         *)
(* Six specifications share the variables: Spec (the item methods, each    *)
(* one atomic action), SchemaSpec and SchemaFairSpec (CreateSchema and     *)
(* DropSchema, one action per control-plane request), ConcurrentSpec (two  *)
(* callers whose methods interleave at their requests to DynamoDB),        *)
(* ExchangeSpec (two callers that each load and then remove one            *)
(* authorization code) and ProjectionSpec (token records whose user data   *)
(* projects attributes of any name).                                       *)
(***************************************************************************)
EXTENDS Integers, FiniteSets, Sequences, TLC

\* Last instant of the modelled wall clock.
MaxTime == 2

-----------------------------------------------------------------------------
(* Errors *)

NoErr == [error |-> "nil"]
ErrClientNotFound == [error |-> "Client not found"]
ErrAuthorizeNotFound == [error |-> "Authorize not found"]
ErrAccessNotFound == [error |-> "Access not found"]
ErrRefreshNotFound == [error |-> "Refresh not found"]
ErrTokenExpired == [error |-> "Token expired"]

\* The error a failed DynamoDB request returns; it names the request.
RequestFailure(request, table) ==
    [error |-> "RequestFailure", request |-> request, table |-> table]

\* json.Marshal of a value that has no JSON encoding (a channel, a func).
UnsupportedTypeError == [error |-> "json: unsupported type"]

\* json.Unmarshal of a JSON object into a nil osin.Client interface.
UnmarshalTypeError ==
    [error |-> "json: cannot unmarshal object into Go value of type osin.Client"]

-----------------------------------------------------------------------------
(* Go values *)

\* nil: a nil pointer or a nil interface value.
Nil == [nil |-> TRUE]

\* *UserDataTest, the user data of the tests; it has ToAttributeValues.
UserDataTest(username) == [type |-> "*UserDataTest", Username |-> username]

\* Two more implementations of the interface UserData, like UserDataTest but
\* for the name of the attribute ToAttributeValues returns: the name of the
\* key attribute of the token tables, and the name of the payload attribute.
UserDataAsToken(username) ==
    [type |-> "*UserDataAsToken", Username |-> username]
UserDataAsJson(username) ==
    [type |-> "*UserDataAsJson", Username |-> username]

\* map[string]interface{}, what encoding/json builds in an empty interface.
GenericMap(username) == [type |-> "map", Username |-> username]

\* A value encoding/json cannot encode.
Unencodable == [type |-> "chan"]

\* *osin.DefaultClient
DefaultClient(id, secret, userData) ==
    [type |-> "*osin.DefaultClient", Id |-> id, Secret |-> secret,
     RedirectUri |-> "/dev/null", UserData |-> userData]

\* &osin.DefaultClient{}
EmptyDefaultClient == DefaultClient("", "", Nil)

\* *osin.AuthorizeData
AuthorizeData(client, code, expiresIn, createdAt, userData) ==
    [Client |-> client, Code |-> code, ExpiresIn |-> expiresIn,
     RedirectUri |-> "/dev/null", CreatedAt |-> createdAt,
     UserData |-> userData]

\* *osin.AccessData
AccessData(client, authorizeData, accessData, accessToken, refreshToken, expiresIn, createdAt, userData) ==
    [Client |-> client, AuthorizeData |-> authorizeData,
     AccessData |-> accessData, AccessToken |-> accessToken,
     RefreshToken |-> refreshToken, ExpiresIn |-> expiresIn,
     CreatedAt |-> createdAt, UserData |-> userData]

\* osin: AuthorizeData.ExpireAt and AccessData.ExpireAt,
\* CreatedAt.Add(ExpiresIn seconds).
ExpireAt(data) == data.CreatedAt + data.ExpiresIn

\* Before with the instant itself counted as before.
Before_OrEqual(t, u) == t <= u

\* time.Time.Before
Before(t, u) == t < u

-----------------------------------------------------------------------------
(* encoding/json *)

JNull == [null |-> TRUE]

\* Whether json.Marshal fails on the value held by an interface{}.
MarshalFails(userData) == userData # Nil /\ userData.type = "chan"

\* json.Marshal of an interface{} holding nil, a struct or a map.  A value
\* without encoding has none: the callers return the error of MarshalFails
\* before they use the document.
MarshalUserData(userData) ==
    IF userData = Nil THEN JNull
    ELSE IF MarshalFails(userData) THEN [unsupported |-> TRUE]
    ELSE [Username |-> userData.Username]

\* json.Marshal of an osin.Client.
MarshalClient(client) ==
    IF client = Nil THEN JNull
    ELSE [Id |-> client.Id, Secret |-> client.Secret,
          RedirectUri |-> client.RedirectUri,
          UserData |-> MarshalUserData(client.UserData)]

\* json.Marshal of an *osin.AuthorizeData.
MarshalAuthorizeData(data) ==
    IF data = Nil THEN JNull
    ELSE [Client |-> MarshalClient(data.Client), Code |-> data.Code,
          ExpiresIn |-> data.ExpiresIn, RedirectUri |-> data.RedirectUri,
          CreatedAt |-> data.CreatedAt,
          UserData |-> MarshalUserData(data.UserData)]

\* json.Marshal of an *osin.AccessData; the nested records are encoded too.
RECURSIVE MarshalAccessData(_)
MarshalAccessData(data) ==
    IF data = Nil THEN JNull
    ELSE [Client |-> MarshalClient(data.Client),
          AuthorizeData |-> MarshalAuthorizeData(data.AuthorizeData),
          AccessData |-> MarshalAccessData(data.AccessData),
          AccessToken |-> data.AccessToken,
          RefreshToken |-> data.RefreshToken,
          ExpiresIn |-> data.ExpiresIn, CreatedAt |-> data.CreatedAt,
          UserData |-> MarshalUserData(data.UserData)]

\* json.Unmarshal into an interface{}: target is what the interface holds
\* before decoding, nil or a pointer to a struct.
UnmarshalUserData(json, target) ==
    IF json = JNull THEN Nil
    ELSE IF target = Nil THEN GenericMap(json.Username)
    ELSE [type |-> target.type, Username |-> json.Username]

\* UnmarshalClient that leaves the client's UserData out.
UnmarshalClient_NoUserData(json, target) ==
    IF json = JNull THEN [err |-> NoErr, val |-> Nil]
    ELSE IF target = Nil THEN [err |-> UnmarshalTypeError, val |-> Nil]
    ELSE [err |-> NoErr,
          val |-> [type |-> target.type, Id |-> json.Id,
                   Secret |-> json.Secret, RedirectUri |-> json.RedirectUri,
                   UserData |-> Nil]]

\* json.Unmarshal into an osin.Client interface: an object can only be
\* decoded when the interface already holds a pointer to a struct.
UnmarshalClient(json, target) ==
    IF json = JNull THEN [err |-> NoErr, val |-> Nil]
    ELSE IF target = Nil THEN [err |-> UnmarshalTypeError, val |-> Nil]
    ELSE [err |-> NoErr,
          val |-> [type |-> target.type, Id |-> json.Id,
                   Secret |-> json.Secret, RedirectUri |-> json.RedirectUri,
                   UserData |-> UnmarshalUserData(json.UserData, Nil)]]

\* json.Unmarshal into an osin.AuthorizeData whose Client and UserData
\* hold clientTarget and userDataTarget.
UnmarshalAuthorizeData(json, clientTarget, userDataTarget) ==
    LET c == UnmarshalClient(json.Client, clientTarget)
    IN  [err |-> c.err,
         val |-> [Client |-> c.val, Code |-> json.Code,
                  ExpiresIn |-> json.ExpiresIn,
                  RedirectUri |-> json.RedirectUri,
                  CreatedAt |-> json.CreatedAt,
                  UserData |-> UnmarshalUserData(json.UserData,
                                                 userDataTarget)]]

\* The first error of a decoding, in the order the fields are decoded.
FirstErr(errs) ==
    IF \E i \in 1..Len(errs) : errs[i] # NoErr
    THEN errs[CHOOSE i \in 1..Len(errs) :
                 /\ errs[i] # NoErr
                 /\ \A j \in 1..(i - 1) : errs[j] = NoErr]
    ELSE NoErr

\* json.Unmarshal into an osin.AccessData whose Client and UserData hold
\* clientTarget and userDataTarget.  The nested AuthorizeData and AccessData
\* pointers are nil in the target, so the decoder allocates zero records
\* for them, whose Client interface is nil.
RECURSIVE UnmarshalAccessData(_, _, _)
UnmarshalAccessData(json, clientTarget, userDataTarget) ==
    LET c == UnmarshalClient(json.Client, clientTarget)
        a == IF json.AuthorizeData = JNull
             THEN [err |-> NoErr, val |-> Nil]
             ELSE UnmarshalAuthorizeData(json.AuthorizeData, Nil, Nil)
        p == IF json.AccessData = JNull
             THEN [err |-> NoErr, val |-> Nil]
             ELSE UnmarshalAccessData(json.AccessData, Nil, Nil)
    IN  [err |-> FirstErr(<<c.err, a.err, p.err>>),
         val |-> [Client |-> c.val, AuthorizeData |-> a.val,
                  AccessData |-> p.val,
                  AccessToken |-> json.AccessToken,
                  RefreshToken |-> json.RefreshToken,
                  ExpiresIn |-> json.ExpiresIn,
                  CreatedAt |-> json.CreatedAt,
                  UserData |-> UnmarshalUserData(json.UserData,
                                                 userDataTarget)]]

-----------------------------------------------------------------------------
(* DynamoDB *)

\* A table is a function from the values of its key attribute to items; an
\* item is a function from attribute names to attribute values.
EmptyTable == [k \in {} |-> Nil]
EmptyItem == [n \in {} |-> Nil]

\* items[k] = v for every k, v of a second map: the second map wins.
MergeAttributes(items, attributes) ==
    [n \in DOMAIN items \cup DOMAIN attributes |->
        IF n \in DOMAIN attributes THEN attributes[n] ELSE items[n]]

\* PutItem that updates the stored item attribute by attribute, as UpdateItem
\* does, and keeps the attributes the new item does not name.
PutItem_KeepsAttributes(table, name, keyAttribute, item, ok) ==
    IF ok /\ item[keyAttribute] # ""
    THEN [err |-> NoErr,
          table |-> [k \in DOMAIN table \cup {item[keyAttribute]} |->
                        IF k # item[keyAttribute] THEN table[k]
                        ELSE IF k \in DOMAIN table
                        THEN MergeAttributes(table[k], item)
                        ELSE item]]
    ELSE [err |-> RequestFailure("PutItem", name), table |-> table]

\* PutItem of a store that keeps one item per table: the write drops the
\* items under the other keys.
PutItem_DropsOtherKeys(table, name, keyAttribute, item, ok) ==
    IF ok /\ item[keyAttribute] # ""
    THEN [err |-> NoErr,
          table |-> [k \in {item[keyAttribute]} |-> item]]
    ELSE [err |-> RequestFailure("PutItem", name), table |-> table]

\* db.PutItem: replaces the whole item stored under the item's key.  The
\* request fails when the service fails (ok = FALSE) and when the key
\* attribute is the empty string, which DynamoDB rejects.
PutItem(table, name, keyAttribute, item, ok) ==
    IF ok /\ item[keyAttribute] # ""
    THEN [err |-> NoErr,
          table |-> [k \in DOMAIN table \cup {item[keyAttribute]} |->
                        IF k = item[keyAttribute] THEN item ELSE table[k]]]
    ELSE [err |-> RequestFailure("PutItem", name), table |-> table]

\* db.GetItem with a ProjectionExpression: the projected attributes of the
\* item, or an empty item when the key is not stored.
GetItem(table, name, key, projection, ok) ==
    IF ok /\ key # ""
    THEN [err |-> NoErr,
          item |-> IF key \in DOMAIN table
                   THEN [n \in DOMAIN table[key] \cap projection |->
                            table[key][n]]
                   ELSE EmptyItem]
    ELSE [err |-> RequestFailure("GetItem", name), item |-> EmptyItem]

\* DeleteItem that is refused when the key is not stored, as with a
\* condition attribute_exists on the key.
DeleteItem_RequiresItem(table, name, key, ok) ==
    IF ok /\ key # "" /\ key \in DOMAIN table
    THEN [err |-> NoErr,
          table |-> [k \in DOMAIN table \ {key} |-> table[k]]]
    ELSE [err |-> RequestFailure("DeleteItem", name), table |-> table]

\* DeleteItem that reports success and deletes nothing.
DeleteItem_KeepsItem(table, name, key, ok) ==
    IF ok /\ key # ""
    THEN [err |-> NoErr, table |-> table]
    ELSE [err |-> RequestFailure("DeleteItem", name), table |-> table]

\* db.DeleteItem: deleting a key that is not stored succeeds.
DeleteItem(table, name, key, ok) ==
    IF ok /\ key # ""
    THEN [err |-> NoErr,
          table |-> [k \in DOMAIN table \ {key} |-> table[k]]]
    ELSE [err |-> RequestFailure("DeleteItem", name), table |-> table]

\* The four tables, by the suffix CreateStorageConfig gives their names.
TableNames == {"access", "authorize", "client", "refresh"}

\* No CreateSchema or DropSchema call is running.
Idle == [op |-> "none"]

-----------------------------------------------------------------------------
(* State *)

VARIABLES
    clientTable,     \* the table config.ClientTable
    authorizeTable,  \* the table config.AuthorizeTable
    accessTable,     \* the table config.AccessTable
    refreshTable,    \* the table config.RefreshTable
    now,             \* the instant time.Now() returns
    last,            \* the last method call: name, key, returned error, value
    schema,          \* the status DynamoDB reports of each of the four tables
    call,            \* the CreateSchema or DropSchema call that is running
    requests,        \* the control-plane requests the running call has issued
    callers,         \* the method each concurrent caller runs, and where it is
    start,           \* the items of the tables when the callers began
    log              \* the item requests the callers have issued, in order

vars == <<clientTable, authorizeTable, accessTable, refreshTable, now, last, schema, call, requests, callers, start, log>>

\* What only concurrent callers touch.
callerVars == <<callers, start, log>>

\* What the item operations never touch: the tables themselves.
schemaVars == <<schema, call, requests>>

tables == <<clientTable, authorizeTable, accessTable, refreshTable>>

Returned(op, key, err, val) ==
    [op |-> op, key |-> key, err |-> err, val |-> val]

-----------------------------------------------------------------------------
(* Storage methods, as functions of the tables they read *)

\* UserData.ToAttributeValues: of UserDataTest, and of the two
\* implementations that name their attribute token and json.  The json
\* attribute they return is a string that is no JSON document.
ToAttributeValues(userData) ==
    IF userData.type = "*UserDataAsToken" THEN [token |-> userData.Username]
    ELSE IF userData.type = "*UserDataAsJson"
    THEN [json |-> [S |-> userData.Username]]
    ELSE [username |-> userData.Username]

\* The type assertion accessData.UserData.(UserData).
IsUserData(userData) ==
    /\ userData # Nil
    /\ userData.type \in {"*UserDataTest", "*UserDataAsToken",
                          "*UserDataAsJson"}

\* CreateClient with an existence check: the write is refused when the id is
\* stored.
CreateClientResult_IfAbsent(table, client, ok) ==
    IF MarshalFails(client.UserData)
    THEN [err |-> UnsupportedTypeError, table |-> table]
    ELSE IF client.Id \in DOMAIN table
    THEN [err |-> RequestFailure("PutItem", "client"), table |-> table]
    ELSE PutItem(table, "client", "id",
                 [id |-> client.Id, json |-> MarshalClient(client)], ok)

CreateClientResult(table, client, ok) ==
    IF MarshalFails(client.UserData)
    THEN [err |-> UnsupportedTypeError, table |-> table]
    ELSE PutItem(table, "client", "id",
                 [id |-> client.Id, json |-> MarshalClient(client)], ok)

GetClientResult(table, id, ok) ==
    LET resp == GetItem(table, "client", id, {"id", "json"}, ok)
        client == UnmarshalClient(resp.item.json, EmptyDefaultClient)
    IN  IF resp.err # NoErr THEN [err |-> resp.err, val |-> Nil]
        ELSE IF DOMAIN resp.item = {}
        THEN [err |-> ErrClientNotFound, val |-> Nil]
        ELSE IF client.err # NoErr THEN [err |-> client.err, val |-> Nil]
        ELSE [err |-> NoErr, val |-> client.val]

RemoveClientResult(table, id, ok) == DeleteItem(table, "client", id, ok)

SaveAuthorizeResult(table, authorizeData, ok) ==
    IF MarshalFails(authorizeData.UserData)
    THEN [err |-> UnsupportedTypeError, table |-> table]
    ELSE PutItem(table, "authorize", "code",
                 [code |-> authorizeData.Code,
                  json |-> MarshalAuthorizeData(authorizeData)], ok)

LoadAuthorizeResult(table, code, t, ok) ==
    LET resp == GetItem(table, "authorize", code, {"json"}, ok)
        authorizeData ==
            UnmarshalAuthorizeData(resp.item.json, EmptyDefaultClient, Nil)
    IN  IF resp.err # NoErr THEN [err |-> resp.err, val |-> Nil]
        ELSE IF DOMAIN resp.item = {}
        THEN [err |-> ErrAuthorizeNotFound, val |-> Nil]
        ELSE IF authorizeData.err # NoErr
        THEN [err |-> authorizeData.err, val |-> Nil]
        ELSE IF Before(ExpireAt(authorizeData.val), t)
        THEN [err |-> ErrTokenExpired, val |-> Nil]
        ELSE [err |-> NoErr, val |-> authorizeData.val]

RemoveAuthorizeResult(table, code, ok) ==
    DeleteItem(table, "authorize", code, ok)

SaveRefreshResult(table, accessData, ok) ==
    IF MarshalFails(accessData.UserData)
    THEN [err |-> UnsupportedTypeError, table |-> table]
    ELSE PutItem(table, "refresh", "token",
                 [token |-> accessData.RefreshToken,
                  json |-> MarshalAccessData(accessData)], ok)

\* SaveAccess without the call of SaveRefresh.
SaveAccessResult_NoMirror(access, refresh, accessData, okAccess, okRefresh) ==
    LET items == [token |-> accessData.AccessToken,
                  json |-> MarshalAccessData(accessData)]
        merged == IF IsUserData(accessData.UserData)
                  THEN MergeAttributes(items,
                           ToAttributeValues(accessData.UserData))
                  ELSE items
        put == PutItem(access, "access", "token", merged, okAccess)
    IN  IF MarshalFails(accessData.UserData)
        THEN [err |-> UnsupportedTypeError,
              access |-> access, refresh |-> refresh]
        ELSE IF put.err # NoErr
        THEN [err |-> put.err, access |-> access, refresh |-> refresh]
        ELSE [err |-> NoErr, access |-> put.table, refresh |-> refresh]

\* SaveAccess that takes the access item back when SaveRefresh fails.
SaveAccessResult_Rollback(access, refresh, accessData, okAccess, okRefresh) ==
    LET items == [token |-> accessData.AccessToken,
                  json |-> MarshalAccessData(accessData)]
        merged == IF IsUserData(accessData.UserData)
                  THEN MergeAttributes(items,
                           ToAttributeValues(accessData.UserData))
                  ELSE items
        put == PutItem(access, "access", "token", merged, okAccess)
        mirror == SaveRefreshResult(refresh, accessData, okRefresh)
    IN  IF MarshalFails(accessData.UserData)
        THEN [err |-> UnsupportedTypeError,
              access |-> access, refresh |-> refresh]
        ELSE IF put.err # NoErr
        THEN [err |-> put.err, access |-> access, refresh |-> refresh]
        ELSE IF accessData.RefreshToken # ""
        THEN [err |-> mirror.err,
              access |-> IF mirror.err = NoErr THEN put.table ELSE access,
              refresh |-> mirror.table]
        ELSE [err |-> NoErr, access |-> put.table, refresh |-> refresh]

\* SaveAccess that calls SaveRefresh whatever the refresh token is.
SaveAccessResult_AlwaysMirror(access, refresh, accessData, okAccess, okRefresh) ==
    LET items == [token |-> accessData.AccessToken,
                  json |-> MarshalAccessData(accessData)]
        merged == IF IsUserData(accessData.UserData)
                  THEN MergeAttributes(items,
                           ToAttributeValues(accessData.UserData))
                  ELSE items
        put == PutItem(access, "access", "token", merged, okAccess)
        mirror == SaveRefreshResult(refresh, accessData, okRefresh)
    IN  IF MarshalFails(accessData.UserData)
        THEN [err |-> UnsupportedTypeError,
              access |-> access, refresh |-> refresh]
        ELSE IF put.err # NoErr
        THEN [err |-> put.err, access |-> access, refresh |-> refresh]
        ELSE [err |-> mirror.err,
              access |-> put.table, refresh |-> mirror.table]

\* SaveAccess: the access write, then the refresh write of SaveRefresh when
\* the record has a refresh token.  Returns the error and both tables.
SaveAccessResult(access, refresh, accessData, okAccess, okRefresh) ==
    LET items == [token |-> accessData.AccessToken,
                  json |-> MarshalAccessData(accessData)]
        merged == IF IsUserData(accessData.UserData)
                  THEN MergeAttributes(items,
                           ToAttributeValues(accessData.UserData))
                  ELSE items
        put == PutItem(access, "access", "token", merged, okAccess)
        mirror == SaveRefreshResult(refresh, accessData, okRefresh)
    IN  IF MarshalFails(accessData.UserData)
        THEN [err |-> UnsupportedTypeError,
              access |-> access, refresh |-> refresh]
        ELSE IF put.err # NoErr
        THEN [err |-> put.err, access |-> access, refresh |-> refresh]
        ELSE IF accessData.RefreshToken # ""
        THEN [err |-> mirror.err,
              access |-> put.table, refresh |-> mirror.table]
        ELSE [err |-> NoErr, access |-> put.table, refresh |-> refresh]

\* LoadAccess that decodes without looking at config.CreateUserData.
LoadAccessResult_IgnoresHook(table, token, createUserData, t, ok) ==
    LET resp == GetItem(table, "access", token, {"json"}, ok)
        accessData ==
            UnmarshalAccessData(resp.item.json, EmptyDefaultClient, Nil)
    IN  IF resp.err # NoErr THEN [err |-> resp.err, val |-> Nil]
        ELSE IF DOMAIN resp.item = {}
        THEN [err |-> ErrAccessNotFound, val |-> Nil]
        ELSE IF accessData.err # NoErr
        THEN [err |-> accessData.err, val |-> Nil]
        ELSE IF Before(ExpireAt(accessData.val), t)
        THEN [err |-> ErrTokenExpired, val |-> Nil]
        ELSE [err |-> NoErr, val |-> accessData.val]

\* LoadAccess that returns the expired record along with ErrTokenExpired.
LoadAccessResult_ExpiredWithRecord(table, token, createUserData, t, ok) ==
    LET resp == GetItem(table, "access", token, {"json"}, ok)
        accessData ==
            UnmarshalAccessData(resp.item.json, EmptyDefaultClient,
                                createUserData)
    IN  IF resp.err # NoErr THEN [err |-> resp.err, val |-> Nil]
        ELSE IF DOMAIN resp.item = {}
        THEN [err |-> ErrAccessNotFound, val |-> Nil]
        ELSE IF accessData.err # NoErr
        THEN [err |-> accessData.err, val |-> Nil]
        ELSE IF Before(ExpireAt(accessData.val), t)
        THEN [err |-> ErrTokenExpired, val |-> accessData.val]
        ELSE [err |-> NoErr, val |-> accessData.val]

LoadAccessResult(table, token, createUserData, t, ok) ==
    LET resp == GetItem(table, "access", token, {"json"}, ok)
        accessData ==
            UnmarshalAccessData(resp.item.json, EmptyDefaultClient,
                                createUserData)
    IN  IF resp.err # NoErr THEN [err |-> resp.err, val |-> Nil]
        ELSE IF DOMAIN resp.item = {}
        THEN [err |-> ErrAccessNotFound, val |-> Nil]
        ELSE IF accessData.err # NoErr
        THEN [err |-> accessData.err, val |-> Nil]
        ELSE IF Before(ExpireAt(accessData.val), t)
        THEN [err |-> ErrTokenExpired, val |-> Nil]
        ELSE [err |-> NoErr, val |-> accessData.val]

RemoveAccessResult(table, token, ok) ==
    DeleteItem(table, "access", token, ok)

\* LoadRefresh that returns the NotFound error of LoadAccess.
LoadRefreshResult_AccessNotFound(table, token, t, ok) ==
    LET resp == GetItem(table, "refresh", token, {"json"}, ok)
        accessData ==
            UnmarshalAccessData(resp.item.json, EmptyDefaultClient, Nil)
    IN  IF resp.err # NoErr THEN [err |-> resp.err, val |-> Nil]
        ELSE IF DOMAIN resp.item = {}
        THEN [err |-> ErrAccessNotFound, val |-> Nil]
        ELSE IF accessData.err # NoErr
        THEN [err |-> accessData.err, val |-> Nil]
        ELSE IF Before(ExpireAt(accessData.val), t)
        THEN [err |-> ErrTokenExpired, val |-> Nil]
        ELSE [err |-> NoErr, val |-> accessData.val]

\* LoadRefresh with a lifetime of its own, one unit longer than the record's.
LoadRefreshResult_OwnLifetime(table, token, t, ok) ==
    LET resp == GetItem(table, "refresh", token, {"json"}, ok)
        accessData ==
            UnmarshalAccessData(resp.item.json, EmptyDefaultClient, Nil)
    IN  IF resp.err # NoErr THEN [err |-> resp.err, val |-> Nil]
        ELSE IF DOMAIN resp.item = {}
        THEN [err |-> ErrRefreshNotFound, val |-> Nil]
        ELSE IF accessData.err # NoErr
        THEN [err |-> accessData.err, val |-> Nil]
        ELSE IF Before(ExpireAt(accessData.val) + 1, t)
        THEN [err |-> ErrTokenExpired, val |-> Nil]
        ELSE [err |-> NoErr, val |-> accessData.val]

LoadRefreshResult(table, token, t, ok) ==
    LET resp == GetItem(table, "refresh", token, {"json"}, ok)
        accessData ==
            UnmarshalAccessData(resp.item.json, EmptyDefaultClient, Nil)
    IN  IF resp.err # NoErr THEN [err |-> resp.err, val |-> Nil]
        ELSE IF DOMAIN resp.item = {}
        THEN [err |-> ErrRefreshNotFound, val |-> Nil]
        ELSE IF accessData.err # NoErr
        THEN [err |-> accessData.err, val |-> Nil]
        ELSE IF Before(ExpireAt(accessData.val), t)
        THEN [err |-> ErrTokenExpired, val |-> Nil]
        ELSE [err |-> NoErr, val |-> accessData.val]

RemoveRefreshResult(table, token, ok) ==
    DeleteItem(table, "refresh", token, ok)

-----------------------------------------------------------------------------
(* Inputs *)

\* The client of the tests, embedded in every code and token.
TestClient == DefaultClient("1234", "aabbccdd", Nil)

ClientIds == {"1234"}
Codes == {"9999"}
Tokens == {"1", "2"}

\* Instants at which the records were created; every record lives for one
\* unit of time, so a record expires within the clock's range.
CreatedAts == 0..1

\* config.CreateUserData of the Storage a method is called on: not set, or
\* returning &UserDataTest{}.
ConfigInputs == {Nil, UserDataTest("")}

ClientInputs ==
    {DefaultClient("1234", "aabbccdd", Nil),
     DefaultClient("1234", "eeffgghh", UserDataTest("kamil")),
     DefaultClient("1234", "aabbccdd", Unencodable)}

AuthorizeInputs ==
    {AuthorizeData(TestClient, "9999", 1, c, Nil) : c \in CreatedAts}
    \cup {AuthorizeData(TestClient, "9999", 1, 0, Unencodable)}

\* The code a token was granted for, and the token a token was refreshed
\* from, as osin nests them in the new token's record.
GrantedCode == AuthorizeData(TestClient, "9999", 1, 0, Nil)
PreviousAccess == AccessData(TestClient, Nil, Nil, "0", "2", 1, 0, Nil)

AccessInputs ==
    {AccessData(TestClient, Nil, Nil, "1", "2", 1, c, Nil) : c \in CreatedAts}
    \cup {AccessData(TestClient, Nil, Nil, "1", "", 1, 0, Nil),
          AccessData(TestClient, Nil, Nil, "1", "2", 1, 0,
                     UserDataTest("kamil")),
          AccessData(TestClient, GrantedCode, Nil, "1", "2", 1, 0, Nil),
          AccessData(TestClient, Nil, Nil, "1", "2", 1, 0, Unencodable),
          AccessData(TestClient, Nil, PreviousAccess, "2", "2", 1, 1, Nil)}

-----------------------------------------------------------------------------
(* Actions: one per Storage method *)

Init ==
    /\ clientTable = EmptyTable
    /\ authorizeTable = EmptyTable
    /\ accessTable = EmptyTable
    /\ refreshTable = EmptyTable
    /\ now = 0
    /\ last = Returned("New", "", NoErr, Nil)
    /\ schema = [name \in TableNames |-> "ACTIVE"]
    /\ call = Idle
    /\ requests = <<>>
    /\ callers = <<>>
    /\ start = <<>>
    /\ log = <<>>

CreateClient(client, ok) ==
    LET r == CreateClientResult(clientTable, client, ok)
    IN  /\ clientTable' = r.table
        /\ last' = Returned("CreateClient", client.Id, r.err, Nil)
        /\ UNCHANGED <<authorizeTable, accessTable, refreshTable, now, schemaVars, callerVars>>

GetClient(id, ok) ==
    LET r == GetClientResult(clientTable, id, ok)
    IN  /\ last' = Returned("GetClient", id, r.err, r.val)
        /\ UNCHANGED <<tables, now, schemaVars, callerVars>>

\* RemoveClient that revokes what was granted to the client: it deletes the
\* codes and tokens whose record names the client as well.
RemoveClient_Cascade(id, ok) ==
    LET r == RemoveClientResult(clientTable, id, ok)
        kept(table) ==
            [k \in {key \in DOMAIN table : table[key].json.Client.Id # id} |->
                table[k]]
    IN  /\ clientTable' = r.table
        /\ authorizeTable' = kept(authorizeTable)
        /\ accessTable' = kept(accessTable)
        /\ refreshTable' = kept(refreshTable)
        /\ last' = Returned("RemoveClient", id, r.err, Nil)
        /\ UNCHANGED <<now, schemaVars, callerVars>>

RemoveClient(id, ok) ==
    LET r == RemoveClientResult(clientTable, id, ok)
    IN  /\ clientTable' = r.table
        /\ last' = Returned("RemoveClient", id, r.err, Nil)
        /\ UNCHANGED <<authorizeTable, accessTable, refreshTable, now, schemaVars, callerVars>>

SaveAuthorize(authorizeData, ok) ==
    LET r == SaveAuthorizeResult(authorizeTable, authorizeData, ok)
    IN  /\ authorizeTable' = r.table
        /\ last' = Returned("SaveAuthorize", authorizeData.Code, r.err, Nil)
        /\ UNCHANGED <<clientTable, accessTable, refreshTable, now, schemaVars, callerVars>>

LoadAuthorize(code, ok) ==
    LET r == LoadAuthorizeResult(authorizeTable, code, now, ok)
    IN  /\ last' = Returned("LoadAuthorize", code, r.err, r.val)
        /\ UNCHANGED <<tables, now, schemaVars, callerVars>>

RemoveAuthorize(code, ok) ==
    LET r == RemoveAuthorizeResult(authorizeTable, code, ok)
    IN  /\ authorizeTable' = r.table
        /\ last' = Returned("RemoveAuthorize", code, r.err, Nil)
        /\ UNCHANGED <<clientTable, accessTable, refreshTable, now, schemaVars, callerVars>>

SaveAccess(accessData, okAccess, okRefresh) ==
    LET r == SaveAccessResult(accessTable, refreshTable, accessData,
                              okAccess, okRefresh)
    IN  /\ accessTable' = r.access
        /\ refreshTable' = r.refresh
        /\ last' = Returned("SaveAccess", accessData.AccessToken, r.err, Nil)
        /\ UNCHANGED <<clientTable, authorizeTable, now, schemaVars, callerVars>>

\* LoadAccess that deletes the item it finds expired.
LoadAccess_DeleteExpired(token, createUserData, ok) ==
    LET r == LoadAccessResult(accessTable, token, createUserData, now, ok)
    IN  /\ last' = Returned("LoadAccess", token, r.err, r.val)
        /\ accessTable' =
              IF r.err = ErrTokenExpired
              THEN DeleteItem(accessTable, "access", token, TRUE).table
              ELSE accessTable
        /\ UNCHANGED <<clientTable, authorizeTable, refreshTable, now, schemaVars, callerVars>>

\* LoadAccess with a sliding lifetime: a load that finds the record expired
\* restarts its lifetime at the current instant.
LoadAccess_RenewsExpired(token, createUserData, ok) ==
    LET r == LoadAccessResult(accessTable, token, createUserData, now, ok)
    IN  /\ last' = Returned("LoadAccess", token, r.err, r.val)
        /\ accessTable' =
              IF r.err = ErrTokenExpired
              THEN [accessTable EXCEPT ![token].json.CreatedAt = now]
              ELSE accessTable
        /\ UNCHANGED <<clientTable, authorizeTable, refreshTable, now, schemaVars, callerVars>>

LoadAccess(token, createUserData, ok) ==
    LET r == LoadAccessResult(accessTable, token, createUserData, now, ok)
    IN  /\ last' = Returned("LoadAccess", token, r.err, r.val)
        /\ UNCHANGED <<tables, now, schemaVars, callerVars>>

RemoveAccess(token, ok) ==
    LET r == RemoveAccessResult(accessTable, token, ok)
    IN  /\ accessTable' = r.table
        /\ last' = Returned("RemoveAccess", token, r.err, Nil)
        /\ UNCHANGED <<clientTable, authorizeTable, refreshTable, now, schemaVars, callerVars>>

\* SaveRefresh that first looks the record up in the access table and
\* refuses to write the mirror of a record that is not there.
SaveRefresh_NeedsAccess(accessData, ok) ==
    LET r == IF accessData.AccessToken \in DOMAIN accessTable
             THEN SaveRefreshResult(refreshTable, accessData, ok)
             ELSE [err |-> ErrAccessNotFound, table |-> refreshTable]
    IN  /\ refreshTable' = r.table
        /\ last' = Returned("SaveRefresh", accessData.RefreshToken, r.err, Nil)
        /\ UNCHANGED <<clientTable, authorizeTable, accessTable, now, schemaVars, callerVars>>

SaveRefresh(accessData, ok) ==
    LET r == SaveRefreshResult(refreshTable, accessData, ok)
    IN  /\ refreshTable' = r.table
        /\ last' = Returned("SaveRefresh", accessData.RefreshToken, r.err, Nil)
        /\ UNCHANGED <<clientTable, authorizeTable, accessTable, now, schemaVars, callerVars>>

\* LoadRefresh on a Storage whose tokens of both kinds live in one table:
\* the token is looked up among the access tokens.
LoadRefresh_ReadsAccess(token, ok) ==
    LET r == LoadRefreshResult(accessTable, token, now, ok)
    IN  /\ last' = Returned("LoadRefresh", token, r.err, r.val)
        /\ UNCHANGED <<tables, now, schemaVars, callerVars>>

LoadRefresh(token, ok) ==
    LET r == LoadRefreshResult(refreshTable, token, now, ok)
    IN  /\ last' = Returned("LoadRefresh", token, r.err, r.val)
        /\ UNCHANGED <<tables, now, schemaVars, callerVars>>

\* RemoveRefresh that revokes the grant: it also deletes the access records
\* that name the refresh token.
RemoveRefresh_Cascade(token, ok) ==
    LET r == RemoveRefreshResult(refreshTable, token, ok)
        kept == {k \in DOMAIN accessTable :
                    accessTable[k].json.RefreshToken # token}
    IN  /\ refreshTable' = r.table
        /\ accessTable' =
              IF r.err = NoErr THEN [k \in kept |-> accessTable[k]]
              ELSE accessTable
        /\ last' = Returned("RemoveRefresh", token, r.err, Nil)
        /\ UNCHANGED <<clientTable, authorizeTable, now, schemaVars, callerVars>>

RemoveRefresh(token, ok) ==
    LET r == RemoveRefreshResult(refreshTable, token, ok)
    IN  /\ refreshTable' = r.table
        /\ last' = Returned("RemoveRefresh", token, r.err, Nil)
        /\ UNCHANGED <<clientTable, authorizeTable, accessTable, now, schemaVars, callerVars>>

\* Time passes between two method calls.
Tick ==
    /\ now < MaxTime
    /\ now' = now + 1
    /\ last' = Returned("Tick", "", NoErr, Nil)
    /\ UNCHANGED <<tables, schemaVars, callerVars>>

Next ==
    \/ \E client \in ClientInputs, ok \in BOOLEAN : CreateClient(client, ok)
    \/ \E id \in ClientIds, ok \in BOOLEAN : GetClient(id, ok)
    \/ \E id \in ClientIds, ok \in BOOLEAN : RemoveClient(id, ok)
    \/ \E authorizeData \in AuthorizeInputs, ok \in BOOLEAN :
          SaveAuthorize(authorizeData, ok)
    \/ \E code \in Codes, ok \in BOOLEAN : LoadAuthorize(code, ok)
    \/ \E code \in Codes, ok \in BOOLEAN : RemoveAuthorize(code, ok)
    \/ \E accessData \in AccessInputs, okAccess \in BOOLEAN,
          okRefresh \in BOOLEAN :
          SaveAccess(accessData, okAccess, okRefresh)
    \/ \E token \in Tokens, createUserData \in ConfigInputs, ok \in BOOLEAN :
          LoadAccess(token, createUserData, ok)
    \/ \E token \in Tokens, ok \in BOOLEAN : RemoveAccess(token, ok)
    \/ \E accessData \in AccessInputs, ok \in BOOLEAN :
          SaveRefresh(accessData, ok)
    \/ \E token \in Tokens, ok \in BOOLEAN : LoadRefresh(token, ok)
    \/ \E token \in Tokens, ok \in BOOLEAN : RemoveRefresh(token, ok)
    \/ Tick

Spec == Init /\ [][Next]_vars

-----------------------------------------------------------------------------
(* The schema: CreateSchema and DropSchema *)

\* Polls of a waiter of the SDK before it gives up (25 in the SDK, 20 seconds
\* apart).
MaxAttempts == 2

\* The status DescribeTable reports; "ABSENT" stands for its
\* ResourceNotFoundException.
TableStatuses == {"ABSENT", "CREATING", "ACTIVE", "DELETING"}

\* The errors of the control plane.
ResourceInUseException == [error |-> "ResourceInUseException"]
ResourceNotFoundException == [error |-> "ResourceNotFoundException"]
ResourceNotReady == [error |-> "ResourceNotReady: exceeded wait attempts"]

\* The tables in the order of createParams and in the order of the slice
\* tables of DropSchema.
CreateOrder == <<"access", "authorize", "client", "refresh">>
DropOrder == <<"access", "authorize", "refresh", "client">>

\* The table the running call works on.
CurrentTable ==
    IF call.op = "CreateSchema" THEN CreateOrder[call.i] ELSE DropOrder[call.i]

\* A schema method starts: nothing is requested yet.
Started(op) == [op |-> op, i |-> 1, step |-> "request", attempts |-> 0]

\* The running call returns err.
ReturnFrom(op, err) ==
    /\ call' = Idle
    /\ last' = Returned(op, "", err, Nil)

\* The running call goes on with the next table, or returns nil after the
\* fourth.
NextTable(op) ==
    IF call.i = 4
    THEN ReturnFrom(op, NoErr)
    ELSE /\ call' = [call EXCEPT !.i = call.i + 1, !.step = "request",
                                 !.attempts = 0]
         /\ last' = last

\* A poll of a waiter did not see the awaited state: the waiter polls again,
\* or gives up at its last attempt.
PollAgain(op) ==
    IF call.attempts + 1 = MaxAttempts
    THEN ReturnFrom(op, ResourceNotReady)
    ELSE /\ call' = [call EXCEPT !.attempts = call.attempts + 1]
         /\ last' = last

\* The items of a table after the table name is deleted.
ItemsAfterDelete(name, tableName, table) ==
    IF name = tableName THEN EmptyTable ELSE table

\* The caller calls CreateSchema.
CreateSchema ==
    /\ call = Idle
    /\ call' = Started("CreateSchema")
    /\ requests' = <<>>
    /\ UNCHANGED <<tables, now, last, schema, callerVars>>

\* CreateSchema that goes on with the next table when db.CreateTable fails.
CreateTableRequest_SkipsFailed(ok) ==
    /\ call.op = "CreateSchema" /\ call.step = "request"
    /\ requests' = Append(requests, <<"CreateTable", CurrentTable>>)
    /\ IF ~ok \/ schema[CurrentTable] # "ABSENT"
       THEN /\ NextTable("CreateSchema")
            /\ schema' = schema
       ELSE /\ schema' = [schema EXCEPT ![CurrentTable] = "CREATING"]
            /\ call' = [call EXCEPT !.step = "wait", !.attempts = 0]
            /\ last' = last
    /\ UNCHANGED <<tables, now, callerVars>>

\* db.CreateTable of a store that replaces a table that exists by a new,
\* empty one.
CreateTableRequest_Replaces(ok) ==
    /\ call.op = "CreateSchema" /\ call.step = "request"
    /\ requests' = Append(requests, <<"CreateTable", CurrentTable>>)
    /\ IF ~ok
       THEN /\ ReturnFrom("CreateSchema",
                          RequestFailure("CreateTable", CurrentTable))
            /\ UNCHANGED <<schema, tables>>
       ELSE /\ schema' = [schema EXCEPT ![CurrentTable] = "CREATING"]
            /\ clientTable'
                  = ItemsAfterDelete(CurrentTable, "client", clientTable)
            /\ authorizeTable'
                  = ItemsAfterDelete(CurrentTable, "authorize", authorizeTable)
            /\ accessTable'
                  = ItemsAfterDelete(CurrentTable, "access", accessTable)
            /\ refreshTable'
                  = ItemsAfterDelete(CurrentTable, "refresh", refreshTable)
            /\ call' = [call EXCEPT !.step = "wait", !.attempts = 0]
            /\ last' = last
    /\ UNCHANGED <<now, callerVars>>

\* createTable, first half: db.CreateTable.  DynamoDB rejects the request
\* for a table that exists in whatever status.
CreateTableRequest(ok) ==
    /\ call.op = "CreateSchema" /\ call.step = "request"
    /\ requests' = Append(requests, <<"CreateTable", CurrentTable>>)
    /\ IF ~ok
       THEN /\ ReturnFrom("CreateSchema",
                          RequestFailure("CreateTable", CurrentTable))
            /\ schema' = schema
       ELSE IF schema[CurrentTable] # "ABSENT"
       THEN /\ ReturnFrom("CreateSchema", ResourceInUseException)
            /\ schema' = schema
       ELSE /\ schema' = [schema EXCEPT ![CurrentTable] = "CREATING"]
            /\ call' = [call EXCEPT !.step = "wait", !.attempts = 0]
            /\ last' = last
    /\ UNCHANGED <<tables, now, callerVars>>

\* WaitUntilTableExists that takes a table in any status for an existing one.
WaitUntilTableExists_AnyStatus(ok) ==
    /\ call.op = "CreateSchema" /\ call.step = "wait"
    /\ requests' = Append(requests, <<"DescribeTable", CurrentTable>>)
    /\ IF ok /\ schema[CurrentTable] # "ABSENT"
       THEN NextTable("CreateSchema")
       ELSE PollAgain("CreateSchema")
    /\ UNCHANGED <<tables, now, schema, callerVars>>

\* A wait for the table that polls without a limit: it returns only when the
\* table is ACTIVE.
WaitUntilTableExists_Unbounded(ok) ==
    /\ call.op = "CreateSchema" /\ call.step = "wait"
    /\ ok /\ schema[CurrentTable] = "ACTIVE"
    /\ requests' = Append(requests, <<"DescribeTable", CurrentTable>>)
    /\ NextTable("CreateSchema")
    /\ UNCHANGED <<tables, now, schema, callerVars>>

\* createTable, second half: one poll of db.WaitUntilTableExists, which
\* succeeds when DescribeTable reports the status ACTIVE.
WaitUntilTableExists(ok) ==
    /\ call.op = "CreateSchema" /\ call.step = "wait"
    /\ requests' = Append(requests, <<"DescribeTable", CurrentTable>>)
    /\ IF ok /\ schema[CurrentTable] = "ACTIVE"
       THEN NextTable("CreateSchema")
       ELSE PollAgain("CreateSchema")
    /\ UNCHANGED <<tables, now, schema, callerVars>>

\* The caller calls DropSchema.
DropSchema ==
    /\ call = Idle
    /\ call' = Started("DropSchema")
    /\ requests' = <<>>
    /\ UNCHANGED <<tables, now, last, schema, callerVars>>

\* deleteTable, first half: db.DeleteTable.  DynamoDB rejects the request
\* for a table that does not exist and for one that is being created or
\* deleted; the items of a deleted table are gone.
\* deleteTable that takes a table that does not exist as deleted and goes
\* on with the next table.
DeleteTableRequest_SkipsMissing(ok) ==
    /\ call.op = "DropSchema" /\ call.step = "request"
    /\ requests' = Append(requests, <<"DeleteTable", CurrentTable>>)
    /\ IF ~ok
       THEN /\ ReturnFrom("DropSchema",
                          RequestFailure("DeleteTable", CurrentTable))
            /\ UNCHANGED <<schema, tables>>
       ELSE IF schema[CurrentTable] = "ABSENT"
       THEN /\ NextTable("DropSchema")
            /\ UNCHANGED <<schema, tables>>
       ELSE IF schema[CurrentTable] # "ACTIVE"
       THEN /\ ReturnFrom("DropSchema", ResourceInUseException)
            /\ UNCHANGED <<schema, tables>>
       ELSE /\ schema' = [schema EXCEPT ![CurrentTable] = "DELETING"]
            /\ clientTable'
                  = ItemsAfterDelete(CurrentTable, "client", clientTable)
            /\ authorizeTable'
                  = ItemsAfterDelete(CurrentTable, "authorize", authorizeTable)
            /\ accessTable'
                  = ItemsAfterDelete(CurrentTable, "access", accessTable)
            /\ refreshTable'
                  = ItemsAfterDelete(CurrentTable, "refresh", refreshTable)
            /\ call' = [call EXCEPT !.step = "wait", !.attempts = 0]
            /\ last' = last
    /\ UNCHANGED <<now, callerVars>>

DeleteTableRequest(ok) ==
    /\ call.op = "DropSchema" /\ call.step = "request"
    /\ requests' = Append(requests, <<"DeleteTable", CurrentTable>>)
    /\ IF ~ok
       THEN /\ ReturnFrom("DropSchema",
                          RequestFailure("DeleteTable", CurrentTable))
            /\ UNCHANGED <<schema, tables>>
       ELSE IF schema[CurrentTable] = "ABSENT"
       THEN /\ ReturnFrom("DropSchema", ResourceNotFoundException)
            /\ UNCHANGED <<schema, tables>>
       ELSE IF schema[CurrentTable] # "ACTIVE"
       THEN /\ ReturnFrom("DropSchema", ResourceInUseException)
            /\ UNCHANGED <<schema, tables>>
       ELSE /\ schema' = [schema EXCEPT ![CurrentTable] = "DELETING"]
            /\ clientTable'
                  = ItemsAfterDelete(CurrentTable, "client", clientTable)
            /\ authorizeTable'
                  = ItemsAfterDelete(CurrentTable, "authorize", authorizeTable)
            /\ accessTable'
                  = ItemsAfterDelete(CurrentTable, "access", accessTable)
            /\ refreshTable'
                  = ItemsAfterDelete(CurrentTable, "refresh", refreshTable)
            /\ call' = [call EXCEPT !.step = "wait", !.attempts = 0]
            /\ last' = last
    /\ UNCHANGED <<now, callerVars>>

\* WaitUntilTableNotExists that takes a table being deleted for a deleted
\* one.
WaitUntilTableNotExists_Deleting(ok) ==
    /\ call.op = "DropSchema" /\ call.step = "wait"
    /\ requests' = Append(requests, <<"DescribeTable", CurrentTable>>)
    /\ IF ok /\ schema[CurrentTable] \in {"ABSENT", "DELETING"}
       THEN NextTable("DropSchema")
       ELSE PollAgain("DropSchema")
    /\ UNCHANGED <<tables, now, schema, callerVars>>

\* deleteTable, second half: one poll of db.WaitUntilTableNotExists, which
\* succeeds when DescribeTable answers ResourceNotFoundException.
WaitUntilTableNotExists(ok) ==
    /\ call.op = "DropSchema" /\ call.step = "wait"
    /\ requests' = Append(requests, <<"DescribeTable", CurrentTable>>)
    /\ IF ok /\ schema[CurrentTable] = "ABSENT"
       THEN NextTable("DropSchema")
       ELSE PollAgain("DropSchema")
    /\ UNCHANGED <<tables, now, schema, callerVars>>

\* DynamoDB finishes the creation of a table.
TableBecomesActive(name) ==
    /\ schema[name] = "CREATING"
    /\ schema' = [schema EXCEPT ![name] = "ACTIVE"]
    /\ UNCHANGED <<tables, now, last, call, requests, callerVars>>

\* DynamoDB finishes the deletion of a table.
TableIsGone(name) ==
    /\ schema[name] = "DELETING"
    /\ schema' = [schema EXCEPT ![name] = "ABSENT"]
    /\ UNCHANGED <<tables, now, last, call, requests, callerVars>>

\* Between two schema calls the caller stores a client in the client table,
\* which exists.
CreateClientInSchema(client) ==
    /\ call = Idle
    /\ schema["client"] = "ACTIVE"
    /\ CreateClient(client, TRUE)

\* Between two schema calls the caller stores a token in the access and
\* refresh tables, which exist.
SaveAccessInSchema(accessData) ==
    /\ call = Idle
    /\ schema["access"] = "ACTIVE"
    /\ schema["refresh"] = "ACTIVE"
    /\ SaveAccess(accessData, TRUE, TRUE)



\* The store before CreateSchema: no table exists.
SchemaInit ==
    /\ clientTable = EmptyTable
    /\ authorizeTable = EmptyTable
    /\ accessTable = EmptyTable
    /\ refreshTable = EmptyTable
    /\ now = 0
    /\ last = Returned("New", "", NoErr, Nil)
    /\ schema = [name \in TableNames |-> "ABSENT"]
    /\ call = Idle
    /\ requests = <<>>
    /\ callers = <<>>
    /\ start = <<>>
    /\ log = <<>>

SchemaNext ==
    \/ CreateSchema
    \/ \E ok \in BOOLEAN : CreateTableRequest(ok)
    \/ \E ok \in BOOLEAN : WaitUntilTableExists(ok)
    \/ DropSchema
    \/ \E ok \in BOOLEAN : DeleteTableRequest(ok)
    \/ \E ok \in BOOLEAN : WaitUntilTableNotExists(ok)
    \/ \E name \in TableNames : TableBecomesActive(name)
    \/ \E name \in TableNames : TableIsGone(name)
    \/ \E client \in ClientInputs : CreateClientInSchema(client)
    \/ \E accessData \in AccessInputs : SaveAccessInSchema(accessData)

SchemaSpec == SchemaInit /\ [][SchemaNext]_vars

-----------------------------------------------------------------------------
(* Vocabulary of the properties *)

\* Equality of two records as the tests compare them: by their JSON encoding
\* (assert.JSONEq of json.Marshal of both).
EqualClient(got, want) ==
    got # Nil /\ MarshalClient(got) = MarshalClient(want)

EqualAuthorizeData(got, want) ==
    got # Nil /\ MarshalAuthorizeData(got) = MarshalAuthorizeData(want)

EqualAccessData(got, want) ==
    got # Nil /\ MarshalAccessData(got) = MarshalAccessData(want)

\* The record is unexpired at instant t.
Unexpired(data, t) == ~Before(ExpireAt(data), t)

\* The record nests a code or a previous token that names a client.
NestsClient(rec) ==
    \/ rec.AuthorizeData # Nil /\ rec.AuthorizeData.Client # Nil
    \/ rec.AccessData # Nil /\ rec.AccessData.Client # Nil

\* The instants from now on.
Later == now..MaxTime

\* The request of the last call reached the table and was answered.
Answered == last.err.error # "RequestFailure"

\* The access table holds rec under its access token and the refresh table
\* holds rec under its refresh token, as after SaveAccess(rec).
SavedWithMirror(rec) ==
    /\ rec.RefreshToken # ""
    /\ rec.AccessToken \in DOMAIN accessTable
    /\ accessTable[rec.AccessToken].json = MarshalAccessData(rec)
    /\ rec.RefreshToken \in DOMAIN refreshTable
    /\ refreshTable[rec.RefreshToken].json = MarshalAccessData(rec)

\* The stored access record under token has its mirror: a refresh item under
\* its refresh token with the same payload.
HasMirror(access, refresh, token) ==
    LET payload == access[token].json
    IN  payload.RefreshToken # "" =>
           /\ payload.RefreshToken \in DOMAIN refresh
           /\ refresh[payload.RefreshToken].json = payload

-----------------------------------------------------------------------------
(* Mirroring of access tokens into the refresh table *)

\* C1: after SaveAccess(rec) returned nil for a record with a non-empty
\* refresh token R, LoadRefresh(R) returns a record equal to rec, at every
\* later instant at which rec is unexpired, although SaveRefresh was never
\* called by the caller.
C1_Mirroring ==
    [][last'.op = "SaveAccess" /\ last'.err = NoErr =>
         \A rec \in AccessInputs :
            SaveAccess(rec, TRUE, TRUE) /\ rec.RefreshToken # "" =>
               \A t \in Later' :
                  Unexpired(rec, t) =>
                     LET got == LoadRefreshResult(refreshTable',
                                                  rec.RefreshToken, t, TRUE)
                     IN  got.err = NoErr /\ EqualAccessData(got.val, rec)]_vars

\* C2, as claimed: every stored access record with a refresh token has its
\* mirror in the refresh table, in every reachable state.
C2_MirrorInvariant ==
    \A token \in DOMAIN accessTable :
        HasMirror(accessTable, refreshTable, token)

\* C2, amended: a SaveAccess that returns nil leaves the saved record with its
\* mirror, and a stored access record loses its mirror only by a SaveAccess
\* that returns an error or writes the same refresh token, by SaveRefresh or
\* by RemoveRefresh.
C2_MirrorEstablished ==
    [][/\ last'.op = "SaveAccess" /\ last'.err = NoErr =>
             HasMirror(accessTable', refreshTable', last'.key)
       /\ last'.op \notin {"SaveAccess", "SaveRefresh", "RemoveRefresh"} =>
             /\ refreshTable' = refreshTable
             /\ \A token \in DOMAIN accessTable' :
                   /\ token \in DOMAIN accessTable
                   /\ accessTable'[token] = accessTable[token]
      ]_vars

\* C2 witness: SaveAccess returned nil and the record it stored has a
\* refresh token.
C2_Witness ==
    /\ last.op = "SaveAccess" /\ last.err = NoErr
    /\ accessTable[last.key].json.RefreshToken # ""
    /\ refreshTable[accessTable[last.key].json.RefreshToken].json
          = accessTable[last.key].json

\* C3: RemoveAccess(T) on a record saved with its mirror deletes the access
\* item only: LoadAccess(T) then returns ErrAccessNotFound and LoadRefresh(R)
\* returns a record equal to rec as long as rec is unexpired.
C3_IndependenceOnRemoval ==
    [][last'.op = "RemoveAccess" /\ last'.err = NoErr =>
         \A rec \in AccessInputs :
            SavedWithMirror(rec) /\ RemoveAccess(rec.AccessToken, TRUE) =>
               /\ refreshTable' = refreshTable
               /\ \A createUserData \in ConfigInputs :
                     LoadAccessResult(accessTable', rec.AccessToken,
                                      createUserData, now', TRUE)
                        = [err |-> ErrAccessNotFound, val |-> Nil]
               /\ \A t \in Later' :
                     Unexpired(rec, t) =>
                        LET got == LoadRefreshResult(refreshTable',
                                       rec.RefreshToken, t, TRUE)
                        IN  got.err = NoErr /\ EqualAccessData(got.val, rec)
      ]_vars

-----------------------------------------------------------------------------
(* Expiration *)

LoadOps == {"GetClient", "LoadAuthorize", "LoadAccess", "LoadRefresh"}

\* The table a load reads.
TableOf(op) ==
    CASE op = "GetClient" -> clientTable
      [] op = "LoadAuthorize" -> authorizeTable
      [] op = "LoadAccess" -> accessTable
      [] op = "LoadRefresh" -> refreshTable

\* The last call was a load of a code or a token that found an item.
LoadedStored ==
    /\ last.op \in {"LoadAuthorize", "LoadAccess", "LoadRefresh"}
    /\ Answered
    /\ last.key \in DOMAIN TableOf(last.op)

\* The payload of the item the last load found.
LoadedPayload == TableOf(last.op)[last.key].json

\* C5, as claimed, for the records the loads decode: the load returns
\* ErrTokenExpired and no record whenever created_at + expires_in is not
\* after the current time, the instant of equality included, and the record
\* only when it is strictly after.
C5_ExpiredWhenNotAfter ==
    LoadedStored /\ last.err # UnmarshalTypeError =>
       /\ ExpireAt(LoadedPayload) <= now =>
             last.err = ErrTokenExpired /\ last.val = Nil
       /\ ExpireAt(LoadedPayload) > now =>
             last.err = NoErr /\ last.val # Nil

\* C5, amended: the load returns no record whenever created_at + expires_in
\* is strictly before the current time, and the error is then ErrTokenExpired
\* for every record the load decodes; at the instant at which they are equal,
\* and whenever created_at + expires_in is after the current time, the load
\* never returns ErrTokenExpired and returns every record it decodes.
C5_ExpiredWhenBefore ==
    LoadedStored =>
       /\ ExpireAt(LoadedPayload) < now =>
             /\ last.val = Nil
             /\ last.err \in {ErrTokenExpired, UnmarshalTypeError}
       /\ ExpireAt(LoadedPayload) >= now =>
             /\ last.err \in {NoErr, UnmarshalTypeError}
             /\ last.err = NoErr =>
                   /\ last.val # Nil
                   /\ ExpireAt(last.val) = ExpireAt(LoadedPayload)
       /\ last.err = UnmarshalTypeError => last.val = Nil

\* C5 witness: a load at the very instant created_at + expires_in returned
\* the record.
C5_Witness ==
    /\ LoadedStored
    /\ ExpireAt(LoadedPayload) = now
    /\ last.err = NoErr
    /\ last.val # Nil

\* A key whose load returns ErrTokenExpired now returns it, and no record,
\* at every later instant, as long as its item is the one stored now.
ExpiredStaysExpired ==
    /\ \A code \in DOMAIN authorizeTable, t \in Later :
          LoadAuthorizeResult(authorizeTable, code, now, TRUE).err
             = ErrTokenExpired
          => LoadAuthorizeResult(authorizeTable, code, t, TRUE)
                = [err |-> ErrTokenExpired, val |-> Nil]
    /\ \A token \in DOMAIN accessTable, t \in Later,
          createUserData \in ConfigInputs :
          LoadAccessResult(accessTable, token, createUserData, now, TRUE).err
             = ErrTokenExpired
          => LoadAccessResult(accessTable, token, createUserData, t, TRUE)
                = [err |-> ErrTokenExpired, val |-> Nil]
    /\ \A token \in DOMAIN refreshTable, t \in Later :
          LoadRefreshResult(refreshTable, token, now, TRUE).err
             = ErrTokenExpired
          => LoadRefreshResult(refreshTable, token, t, TRUE)
                = [err |-> ErrTokenExpired, val |-> Nil]

\* C6: no load changes a table, whatever it returns, the clock never runs
\* backwards, and a key whose load returns ErrTokenExpired keeps returning it
\* as long as the item under the key is not replaced or removed.
C6_LazyExpiration ==
    /\ [][/\ last'.op \in LoadOps => tables' = tables
          /\ now' >= now]_vars
    /\ []ExpiredStaysExpired

\* C6 witness: LoadAccess returned ErrTokenExpired and the item is still
\* stored.
C6_Witness ==
    /\ last.op = "LoadAccess"
    /\ last.err = ErrTokenExpired
    /\ last.key \in DOMAIN accessTable
    /\ ExpireAt(accessTable[last.key].json) < now

-----------------------------------------------------------------------------
(* Round trips *)

\* C7: a record saved by SaveAuthorize, SaveAccess or SaveRefresh is returned
\* by LoadAuthorize, LoadAccess or LoadRefresh on its key, without error and
\* equal to the record saved, at every instant at which it is unexpired.
C7_RoundTrip ==
    [][/\ last'.op = "SaveAuthorize" /\ last'.err = NoErr =>
             \A rec \in AuthorizeInputs :
                SaveAuthorize(rec, TRUE) =>
                   \A t \in Later' :
                      Unexpired(rec, t) =>
                         LET got == LoadAuthorizeResult(authorizeTable',
                                        rec.Code, t, TRUE)
                         IN  /\ got.err = NoErr
                             /\ EqualAuthorizeData(got.val, rec)
       /\ last'.op = "SaveAccess" /\ last'.err = NoErr =>
             \A rec \in AccessInputs :
                SaveAccess(rec, TRUE, TRUE) =>
                   \A t \in Later', createUserData \in ConfigInputs :
                      Unexpired(rec, t) =>
                         LET got == LoadAccessResult(accessTable',
                                        rec.AccessToken, createUserData, t,
                                        TRUE)
                         IN  /\ got.err = NoErr
                             /\ EqualAccessData(got.val, rec)
       /\ last'.op = "SaveRefresh" /\ last'.err = NoErr =>
             \A rec \in AccessInputs :
                SaveRefresh(rec, TRUE) =>
                   \A t \in Later' :
                      Unexpired(rec, t) =>
                         LET got == LoadRefreshResult(refreshTable',
                                        rec.RefreshToken, t, TRUE)
                         IN  /\ got.err = NoErr
                             /\ EqualAccessData(got.val, rec)
      ]_vars

\* C8, as claimed: a client stored by CreateClient is returned by GetClient
\* on its id, without error and equal to the client stored, as the
\* assert.Equal of TestClient compares them: field by field, user data of
\* the same type included.
C8_ClientRoundTripExact ==
    [][last'.op = "CreateClient" /\ last'.err = NoErr =>
         \A client \in ClientInputs :
            CreateClient(client, TRUE) =>
               LET got == GetClientResult(clientTable', client.Id, TRUE)
               IN  got.err = NoErr /\ got.val = client
      ]_vars

\* C8, amended: a client stored by CreateClient is returned by GetClient on
\* its id, without error, with the id, secret and redirect URI stored and
\* with the JSON of the client stored; it is the client stored when that one
\* has no user data, and otherwise its user data is the generic map decoded
\* from the JSON.  No instant enters the result of GetClient.
C8_ClientRoundTrip ==
    [][last'.op = "CreateClient" /\ last'.err = NoErr =>
         \A client \in ClientInputs :
            CreateClient(client, TRUE) =>
               LET got == GetClientResult(clientTable', client.Id, TRUE)
               IN  /\ got.err = NoErr
                   /\ EqualClient(got.val, client)
                   /\ got.val.Id = client.Id
                   /\ got.val.Secret = client.Secret
                   /\ got.val.RedirectUri = client.RedirectUri
                   /\ client.UserData = Nil => got.val = client
                   /\ client.UserData # Nil =>
                         got.val.UserData
                            = GenericMap(client.UserData.Username)
      ]_vars

\* C8 witness: GetClient returned a stored client, one that carries user
\* data, after time has passed.
C8_Witness ==
    /\ last.op = "GetClient"
    /\ last.err = NoErr
    /\ last.val.UserData # Nil
    /\ EqualClient(last.val, DefaultClient("1234", "eeffgghh",
                                           UserDataTest("kamil")))

-----------------------------------------------------------------------------
(* Absent keys *)

\* The NotFound error of each load.
NotFoundOf(op) ==
    CASE op = "GetClient" -> ErrClientNotFound
      [] op = "LoadAuthorize" -> ErrAuthorizeNotFound
      [] op = "LoadAccess" -> ErrAccessNotFound
      [] op = "LoadRefresh" -> ErrRefreshNotFound

\* A key enters a table only by a save on that key that returns nil
\* (SaveAccess also writes the key of its mirror).
OnlySavesStore ==
    /\ \A k \in DOMAIN clientTable' \ DOMAIN clientTable :
          last' = Returned("CreateClient", k, NoErr, Nil)
    /\ \A k \in DOMAIN authorizeTable' \ DOMAIN authorizeTable :
          last' = Returned("SaveAuthorize", k, NoErr, Nil)
    /\ \A k \in DOMAIN accessTable' \ DOMAIN accessTable :
          last'.op = "SaveAccess" /\ last'.key = k
    /\ \A k \in DOMAIN refreshTable' \ DOMAIN refreshTable :
          \/ last' = Returned("SaveRefresh", k, NoErr, Nil)
          \/ last'.op = "SaveAccess" /\ last'.err = NoErr

\* The last call was a load on a key that is not stored, and it returned the
\* NotFound error of its kind and a nil value.
AbsentIsNotFound ==
    /\ last.op \in LoadOps
    /\ Answered
    /\ last.key \notin DOMAIN TableOf(last.op)
    => last.err = NotFoundOf(last.op) /\ last.val = Nil

\* C9: a key is stored only once a save wrote it, and a load on a key that
\* is not stored returns the NotFound error of its kind and a nil value, at
\* any instant.
C9_NotFoundBeforeCreate ==
    [][OnlySavesStore /\ AbsentIsNotFound']_vars

\* C9 witness: LoadRefresh on a key that was not saved returned
\* ErrRefreshNotFound after time has passed, while the access table holds
\* items.
C9_Witness ==
    /\ last.op = "LoadRefresh"
    /\ last.err = ErrRefreshNotFound
    /\ last.val = Nil
    /\ refreshTable = EmptyTable
    /\ accessTable # EmptyTable
    /\ now > 0

\* C10: after a remove that returns nil the key is not stored, whether the
\* record removed was expired or not, and the load of its kind returns its
\* NotFound error and a nil value at every later instant, until a save
\* writes the key.
C10_NotFoundAfterRemove ==
    [][/\ last'.op = "RemoveClient" /\ last'.err = NoErr =>
             GetClientResult(clientTable', last'.key, TRUE)
                = [err |-> ErrClientNotFound, val |-> Nil]
       /\ last'.op = "RemoveAuthorize" /\ last'.err = NoErr =>
             \A t \in Later' :
                LoadAuthorizeResult(authorizeTable', last'.key, t, TRUE)
                   = [err |-> ErrAuthorizeNotFound, val |-> Nil]
       /\ last'.op = "RemoveAccess" /\ last'.err = NoErr =>
             \A t \in Later', createUserData \in ConfigInputs :
                LoadAccessResult(accessTable', last'.key, createUserData, t,
                                 TRUE)
                   = [err |-> ErrAccessNotFound, val |-> Nil]
       /\ last'.op = "RemoveRefresh" /\ last'.err = NoErr =>
             \A t \in Later' :
                LoadRefreshResult(refreshTable', last'.key, t, TRUE)
                   = [err |-> ErrRefreshNotFound, val |-> Nil]
       /\ OnlySavesStore
      ]_vars

\* C10 witness: RemoveRefresh returned nil for the mirror of an access record
\* that is stored and expired, and the mirror is gone.
C10_Witness ==
    /\ last.op = "RemoveRefresh"
    /\ last.err = NoErr
    /\ last.key \notin DOMAIN refreshTable
    /\ \E token \in DOMAIN accessTable :
          /\ accessTable[token].json.RefreshToken = last.key
          /\ ExpireAt(accessTable[token].json) < now

-----------------------------------------------------------------------------
(* Records without nested grant data *)

\* The loads fail with UnmarshalTypeError on exactly the stored tokens that
\* nest a client, at every instant.
NestedClientFailsToDecode ==
    /\ \A token \in DOMAIN accessTable, createUserData \in ConfigInputs :
          LoadAccessResult(accessTable, token, createUserData, now, TRUE).err
             = UnmarshalTypeError
          <=> \E rec \in AccessInputs :
                 /\ NestsClient(rec)
                 /\ accessTable[token].json = MarshalAccessData(rec)
    /\ \A token \in DOMAIN refreshTable :
          LoadRefreshResult(refreshTable, token, now, TRUE).err
             = UnmarshalTypeError
          <=> \E rec \in AccessInputs :
                 /\ NestsClient(rec)
                 /\ refreshTable[token].json = MarshalAccessData(rec)

\* Mirroring, independence on removal and the round trips hold of the
\* records that nest no client.
FlatRecordsRoundTrip ==
    [][/\ last'.op = "SaveAccess" /\ last'.err = NoErr =>
             \A rec \in AccessInputs :
                SaveAccess(rec, TRUE, TRUE) /\ ~NestsClient(rec) =>
                   \A t \in Later', createUserData \in ConfigInputs :
                      Unexpired(rec, t) =>
                         LET got == LoadAccessResult(accessTable',
                                        rec.AccessToken, createUserData, t,
                                        TRUE)
                             mirror == LoadRefreshResult(refreshTable',
                                          rec.RefreshToken, t, TRUE)
                         IN  /\ got.err = NoErr
                             /\ EqualAccessData(got.val, rec)
                             /\ rec.RefreshToken # "" =>
                                   /\ mirror.err = NoErr
                                   /\ EqualAccessData(mirror.val, rec)
       /\ last'.op = "SaveRefresh" /\ last'.err = NoErr =>
             \A rec \in AccessInputs :
                SaveRefresh(rec, TRUE) /\ ~NestsClient(rec) =>
                   \A t \in Later' :
                      Unexpired(rec, t) =>
                         LET got == LoadRefreshResult(refreshTable',
                                        rec.RefreshToken, t, TRUE)
                         IN  /\ got.err = NoErr
                             /\ EqualAccessData(got.val, rec)
       /\ last'.op = "SaveAuthorize" /\ last'.err = NoErr =>
             \A rec \in AuthorizeInputs :
                SaveAuthorize(rec, TRUE) =>
                   \A t \in Later' :
                      Unexpired(rec, t) =>
                         LET got == LoadAuthorizeResult(authorizeTable',
                                        rec.Code, t, TRUE)
                         IN  /\ got.err = NoErr
                             /\ EqualAuthorizeData(got.val, rec)
       /\ last'.op = "RemoveAccess" /\ last'.err = NoErr =>
             \A rec \in AccessInputs :
                /\ SavedWithMirror(rec)
                /\ ~NestsClient(rec)
                /\ RemoveAccess(rec.AccessToken, TRUE)
                => /\ refreshTable' = refreshTable
                   /\ \A t \in Later' :
                         Unexpired(rec, t) =>
                            LET got == LoadRefreshResult(refreshTable',
                                           rec.RefreshToken, t, TRUE)
                            IN  /\ got.err = NoErr
                                /\ EqualAccessData(got.val, rec)
      ]_vars

-----------------------------------------------------------------------------
(* The access record and its mirror *)

\* C11: while an access record with a refresh token and its mirror are both
\* stored with the payload SaveAccess wrote, LoadRefresh on the refresh
\* token returns ErrTokenExpired at exactly the instants at which LoadAccess
\* on the access token returns it, whatever the configuration of LoadAccess.
C11_SharedExpirySchedule ==
    \A token \in DOMAIN accessTable :
       LET payload == accessTable[token].json
       IN  /\ payload.RefreshToken # ""
           /\ payload.RefreshToken \in DOMAIN refreshTable
           /\ refreshTable[payload.RefreshToken].json = payload
           => \A t \in Later, createUserData \in ConfigInputs :
                 LoadRefreshResult(refreshTable, payload.RefreshToken,
                                   t, TRUE).err = ErrTokenExpired
                 <=> LoadAccessResult(accessTable, token, createUserData,
                                      t, TRUE).err = ErrTokenExpired

\* C11 witness: LoadRefresh returned ErrTokenExpired on the mirror of a
\* stored access record, which LoadAccess finds expired too.
C11_Witness ==
    /\ last.op = "LoadRefresh"
    /\ last.err = ErrTokenExpired
    /\ \E rec \in AccessInputs :
          /\ SavedWithMirror(rec)
          /\ rec.RefreshToken = last.key
          /\ LoadAccessResult(accessTable, rec.AccessToken, Nil, now,
                              TRUE).err = ErrTokenExpired

\* After a SaveAccess that returned nil, LoadAccess and LoadRefresh on the
\* tokens of the record it stored never return another record, at any later
\* instant, and return ErrTokenExpired when the record is one that decodes
\* and has expired.
LoadsReflectSaved ==
    last.op = "SaveAccess" /\ last.err = NoErr =>
       \A rec \in AccessInputs :
          SavedWithMirror(rec) /\ rec.AccessToken = last.key =>
             \A t \in Later, createUserData \in ConfigInputs :
                LET a == LoadAccessResult(accessTable, rec.AccessToken,
                                          createUserData, t, TRUE)
                    m == LoadRefreshResult(refreshTable, rec.RefreshToken,
                                           t, TRUE)
                IN  /\ a.val # Nil => EqualAccessData(a.val, rec)
                    /\ m.val # Nil => EqualAccessData(m.val, rec)
                    /\ ~NestsClient(rec) /\ ~Unexpired(rec, t)
                       => /\ a.err = ErrTokenExpired
                          /\ m.err = ErrTokenExpired

C13_NoMirrorWithoutRefreshToken ==
    [][last'.op = "SaveAccess" =>
         \A rec \in AccessInputs, okAccess \in BOOLEAN :
            /\ rec.RefreshToken = ""
            /\ SaveAccess(rec, okAccess, FALSE)
            => /\ refreshTable' = refreshTable
               /\ last'.err = IF okAccess THEN NoErr
                              ELSE RequestFailure("PutItem", "access")
               /\ okAccess =>
                     /\ rec.AccessToken \in DOMAIN accessTable'
                     /\ accessTable'[rec.AccessToken].json
                           = MarshalAccessData(rec)
               /\ ~okAccess => accessTable' = accessTable
      ]_vars

\* C13 witness: SaveAccess returned nil for a record without refresh token,
\* which is stored, while the refresh table holds the mirror of an earlier
\* record.
C13_Witness ==
    /\ last.op = "SaveAccess"
    /\ last.err = NoErr
    /\ last.key \in DOMAIN accessTable
    /\ accessTable[last.key].json.RefreshToken = ""
    /\ refreshTable # EmptyTable

-----------------------------------------------------------------------------
(* Clients *)

\* C14: CreateClient on an id that is stored returns nil whenever the client
\* can be encoded and the request is served; the item under the id is then
\* the id and the payload of the client written last and nothing else, no
\* key is added, and GetClient on the id returns this client.
C14_CreateClientOverwrites ==
    [][last'.op = "CreateClient" /\ last'.key \in DOMAIN clientTable =>
         \A client \in ClientInputs :
            CreateClient(client, TRUE) /\ ~MarshalFails(client.UserData) =>
               LET got == GetClientResult(clientTable', client.Id, TRUE)
               IN  /\ last'.err = NoErr
                   /\ clientTable'[client.Id]
                         = [id |-> client.Id, json |-> MarshalClient(client)]
                   /\ DOMAIN clientTable' = DOMAIN clientTable
                   /\ got.err = NoErr
                   /\ EqualClient(got.val, client)
                   /\ got.val.Secret = client.Secret
      ]_vars

\* C14 witness: CreateClient returned nil and the id holds the second client
\* of the inputs, the one with the other secret.
C14_Witness ==
    /\ last.op = "CreateClient"
    /\ last.err = NoErr
    /\ DOMAIN clientTable = {last.key}
    /\ clientTable[last.key].json.Secret = "eeffgghh"

-----------------------------------------------------------------------------
(* Removes *)

RemoveOps == {"RemoveClient", "RemoveAuthorize", "RemoveAccess", "RemoveRefresh"}

\* The table a remove deletes from.
RemovedFrom(op) ==
    CASE op = "RemoveClient" -> clientTable
      [] op = "RemoveAuthorize" -> authorizeTable
      [] op = "RemoveAccess" -> accessTable
      [] op = "RemoveRefresh" -> refreshTable

\* C15: a remove whose request is served returns nil whether the key is
\* stored or not; on a key that is not stored it changes no table; and a
\* second remove of the same key returns nil again and changes nothing.
C15_RemoveAbsentIsNoError ==
    [][last'.op \in RemoveOps =>
         /\ \A id \in ClientIds :
               RemoveClient(id, TRUE) =>
                  /\ last'.err = NoErr
                  /\ id \notin DOMAIN clientTable => tables' = tables
                  /\ RemoveClientResult(clientTable', id, TRUE)
                        = [err |-> NoErr, table |-> clientTable']
         /\ \A code \in Codes :
               RemoveAuthorize(code, TRUE) =>
                  /\ last'.err = NoErr
                  /\ code \notin DOMAIN authorizeTable => tables' = tables
                  /\ RemoveAuthorizeResult(authorizeTable', code, TRUE)
                        = [err |-> NoErr, table |-> authorizeTable']
         /\ \A token \in Tokens :
               /\ RemoveAccess(token, TRUE) =>
                     /\ last'.err = NoErr
                     /\ token \notin DOMAIN accessTable => tables' = tables
                     /\ RemoveAccessResult(accessTable', token, TRUE)
                           = [err |-> NoErr, table |-> accessTable']
               /\ RemoveRefresh(token, TRUE) =>
                     /\ last'.err = NoErr
                     /\ token \notin DOMAIN refreshTable => tables' = tables
                     /\ RemoveRefreshResult(refreshTable', token, TRUE)
                           = [err |-> NoErr, table |-> refreshTable']
      ]_vars

\* C15 witness: RemoveAccess returned nil on a token that is not stored
\* while the other token is, and the refresh table holds a record.
C15_Witness ==
    /\ last.op = "RemoveAccess"
    /\ last.err = NoErr
    /\ last.key \notin DOMAIN accessTable
    /\ accessTable # EmptyTable
    /\ refreshTable # EmptyTable

-----------------------------------------------------------------------------
(* Results of the loads *)

\* The name of the table a load reads, as the store's errors name it.
TableNameOf(op) ==
    CASE op = "GetClient" -> "client"
      [] op = "LoadAuthorize" -> "authorize"
      [] op = "LoadAccess" -> "access"
      [] op = "LoadRefresh" -> "refresh"

\* The errors a load returns: the NotFound error of its entity, the error of
\* its GetItem request, the error of json.Unmarshal and, the clients apart,
\* ErrTokenExpired.
LoadErrors(op) ==
    {NotFoundOf(op), RequestFailure("GetItem", TableNameOf(op)), UnmarshalTypeError} \cup (IF op = "GetClient" THEN {} ELSE {ErrTokenExpired})

\* A load returned a value and nil, or nil and one of its errors.
ValueOrError ==
    last.op \in LoadOps =>
       \/ last.val # Nil /\ last.err = NoErr
       \/ last.val = Nil /\ last.err \in LoadErrors(last.op)

\* C16: every load returns either a value and a nil error or a nil value and
\* one error of its kind, and a load whose GetItem request fails returns the
\* error of the request, unchanged, whatever the table holds.
C16_ValueOrError ==
    /\ []ValueOrError
    /\ [][last'.op \in LoadOps =>
            /\ \A id \in ClientIds :
                  GetClient(id, FALSE) =>
                     /\ last'.val = Nil
                     /\ last'.err
                           = GetItem(clientTable, "client", id,
                                     {"id", "json"}, FALSE).err
            /\ \A code \in Codes :
                  LoadAuthorize(code, FALSE) =>
                     /\ last'.val = Nil
                     /\ last'.err
                           = GetItem(authorizeTable, "authorize", code,
                                     {"json"}, FALSE).err
            /\ \A token \in Tokens :
                  /\ \A createUserData \in ConfigInputs :
                        LoadAccess(token, createUserData, FALSE) =>
                           /\ last'.val = Nil
                           /\ last'.err
                                 = GetItem(accessTable, "access", token,
                                           {"json"}, FALSE).err
                  /\ LoadRefresh(token, FALSE) =>
                        /\ last'.val = Nil
                        /\ last'.err
                              = GetItem(refreshTable, "refresh", token,
                                        {"json"}, FALSE).err
         ]_vars

\* C16 witness: LoadAccess on a stored, unexpired token returned the error
\* of its failed request and no value.
C16_Witness ==
    /\ last.op = "LoadAccess"
    /\ last.err = RequestFailure("GetItem", "access")
    /\ last.val = Nil
    /\ last.key \in DOMAIN accessTable
    /\ Unexpired(accessTable[last.key].json, now)

-----------------------------------------------------------------------------
(* User data *)

\* The item holds every attribute the user data projects, with its value.
HoldsProjection(item, userData) ==
    \A n \in DOMAIN ToAttributeValues(userData) :
       n \in DOMAIN item /\ item[n] = ToAttributeValues(userData)[n]

\* C17: when the user data of the record has ToAttributeValues, the item
\* SaveAccess writes to the access table, the item its call of SaveRefresh
\* writes to the refresh table and the item SaveRefresh writes when called
\* alone all hold the projected attributes beside the key and the payload.
C17_ProjectionOnBothWrites ==
    [][last'.op \in {"SaveAccess", "SaveRefresh"} /\ last'.err = NoErr =>
         \A rec \in AccessInputs :
            IsUserData(rec.UserData) =>
               /\ SaveAccess(rec, TRUE, TRUE) =>
                     /\ HoldsProjection(accessTable'[rec.AccessToken],
                                        rec.UserData)
                     /\ rec.RefreshToken # "" =>
                           HoldsProjection(refreshTable'[rec.RefreshToken],
                                           rec.UserData)
               /\ SaveRefresh(rec, TRUE) =>
                     HoldsProjection(refreshTable'[rec.RefreshToken],
                                     rec.UserData)
      ]_vars

\* The hook of the tests: config.CreateUserData returns &UserDataTest{}.
CreateUserData == UserDataTest("")

\* C18: on every stored access token, at every instant, LoadAccess returns
\* the same error with and without config.CreateUserData; when it returns a
\* record, the record's user data is nil when the payload has none, and
\* otherwise a *UserDataTest with the payload's fields when the hook is
\* configured and a generic map with the payload's fields when it is not;
\* the rest of the record is the same.  A LoadAccess call returned user data
\* of one of these shapes.
C18_ReconstructionHook ==
    /\ \A token \in DOMAIN accessTable, t \in Later :
          LET payload == accessTable[token].json
              hooked == LoadAccessResult(accessTable, token, CreateUserData,
                                         t, TRUE)
              plain == LoadAccessResult(accessTable, token, Nil, t, TRUE)
          IN  /\ hooked.err = plain.err
              /\ plain.err = NoErr =>
                    /\ plain.val.UserData
                          = IF payload.UserData = JNull THEN Nil
                            ELSE GenericMap(payload.UserData.Username)
                    /\ hooked.val.UserData
                          = IF payload.UserData = JNull THEN Nil
                            ELSE UserDataTest(payload.UserData.Username)
                    /\ hooked.val
                          = [plain.val EXCEPT
                                !.UserData = hooked.val.UserData]
    /\ last.op = "LoadAccess" /\ last.err = NoErr /\ last.val.UserData # Nil
       => LET u == accessTable[last.key].json.UserData.Username
          IN  last.val.UserData \in {GenericMap(u), UserDataTest(u)}

\* C18 witness: LoadAccess returned a record whose user data is a
\* *UserDataTest with the user name saved, which only the hook produces.
C18_Witness ==
    /\ last.op = "LoadAccess"
    /\ last.err = NoErr
    /\ last.val.UserData = UserDataTest("kamil")

-----------------------------------------------------------------------------
(* Provisioning and teardown *)

\* The tables named by the requests of one kind of the running call, in the
\* order of the requests.
Requested(kind) ==
    LET of == SelectSeq(requests, LAMBDA r : r[1] = kind)
    IN  [j \in 1..Len(of) |-> of[j][2]]

\* s is the beginning of t.
IsPrefix(s, t) == Len(s) <= Len(t) /\ \A j \in 1..Len(s) : s[j] = t[j]

\* The step issues a request of the kind, after at least one other request
\* of the same call.
IssuesFurther(kind) ==
    /\ Len(requests) > 0
    /\ Len(requests') = Len(requests) + 1
    /\ requests'[Len(requests')][1] = kind

\* C19: CreateSchema issues its CreateTable requests in the order access,
\* authorize, client, refresh; it issues the request for a table only after
\* a DescribeTable of the table before it, which it reported ACTIVE, with
\* every table requested so far ACTIVE; and when it returns nil it has
\* issued four CreateTable requests and the four tables are ACTIVE.
C19_Provisioning ==
    /\ [](/\ IsPrefix(Requested("CreateTable"),
                      <<"access", "authorize", "client", "refresh">>)
          /\ call.op = "CreateSchema" => Requested("DeleteTable") = <<>>)
    /\ [][/\ IssuesFurther("CreateTable") =>
                /\ requests[Len(requests)]
                      = <<"DescribeTable",
                          Requested("CreateTable")[
                             Len(Requested("CreateTable"))]>>
                /\ \A j \in 1..Len(Requested("CreateTable")) :
                      schema[Requested("CreateTable")[j]] = "ACTIVE"
          /\ call.op = "CreateSchema" /\ call' = Idle /\ last'.err = NoErr =>
                /\ last'.op = "CreateSchema"
                /\ Len(Requested("CreateTable")') = 4
                /\ \A name \in TableNames : schema'[name] = "ACTIVE"
         ]_vars

\* C19 witness: CreateSchema returned nil and the four tables are ACTIVE.
C19_Witness ==
    /\ last.op = "CreateSchema"
    /\ last.err = NoErr
    /\ call = Idle
    /\ Len(Requested("CreateTable")) = 4
    /\ \A name \in TableNames : schema[name] = "ACTIVE"

\* C20: DropSchema issues its DeleteTable requests in the order access,
\* authorize, refresh, client; it issues the request for a table only after
\* a DescribeTable of the table before it, which it found absent, with every
\* table requested so far absent; its steps change the status of the table
\* they work on only, from ACTIVE to DELETING, and a DeleteTable request that
\* is served for an ACTIVE table is accepted, so DropSchema after a
\* CreateSchema that returned nil fails only when a request is not served or
\* a deletion outlasts the wait; and when it returns nil it has issued four
\* DeleteTable requests and none of the four tables exists.
C20_Teardown ==
    /\ [](/\ IsPrefix(Requested("DeleteTable"),
                      <<"access", "authorize", "refresh", "client">>)
          /\ call.op = "DropSchema" => Requested("CreateTable") = <<>>)
    /\ [][/\ IssuesFurther("DeleteTable") =>
                /\ requests[Len(requests)]
                      = <<"DescribeTable",
                          Requested("DeleteTable")[
                             Len(Requested("DeleteTable"))]>>
                /\ \A j \in 1..Len(Requested("DeleteTable")) :
                      schema[Requested("DeleteTable")[j]] = "ABSENT"
          /\ call.op = "DropSchema" =>
                \A name \in TableNames :
                   schema'[name] # schema[name] =>
                      \/ /\ name = CurrentTable
                         /\ call.step = "request"
                         /\ schema[name] = "ACTIVE"
                         /\ schema'[name] = "DELETING"
                      \/ TableBecomesActive(name)
                      \/ TableIsGone(name)
          /\ /\ call.op = "DropSchema"
             /\ call.step = "request"
             /\ schema[CurrentTable] = "ACTIVE"
             /\ DeleteTableRequest(TRUE)
             => call' = [call EXCEPT !.step = "wait"]
          /\ call.op = "DropSchema" /\ call' = Idle /\ last'.err = NoErr =>
                /\ last'.op = "DropSchema"
                /\ Len(Requested("DeleteTable")') = 4
                /\ \A name \in TableNames : schema'[name] = "ABSENT"
         ]_vars

\* C20 witness: DropSchema returned nil after four DeleteTable requests and
\* no table exists; the tables it deleted were created by a CreateSchema
\* before it.
C20_Witness ==
    /\ last.op = "DropSchema"
    /\ last.err = NoErr
    /\ call = Idle
    /\ Len(Requested("DeleteTable")) = 4
    /\ \A name \in TableNames : schema[name] = "ABSENT"

(* Failures of the schema methods *)

\* The errors the store gives to the request or to the waiter the running
\* call is at.
StoreErrors ==
    IF call.step = "wait"
    THEN {ResourceNotReady}
    ELSE IF call.op = "CreateSchema"
    THEN {RequestFailure("CreateTable", CurrentTable), ResourceInUseException}
    ELSE {RequestFailure("DeleteTable", CurrentTable),
          ResourceNotFoundException, ResourceInUseException}

\* The tables up to the one the running call works on.
TablesSoFar ==
    {(IF call.op = "CreateSchema" THEN CreateOrder ELSE DropOrder)[j] :
        j \in 1..call.i}

\* The store rejects the request the running call is about to issue, or the
\* last poll of its waiter does not see the awaited state.
MustFail ==
    \/ /\ call.op = "CreateSchema" /\ call.step = "request"
       /\ schema[CurrentTable] # "ABSENT"
    \/ /\ call.op = "DropSchema" /\ call.step = "request"
       /\ schema[CurrentTable] # "ACTIVE"
    \/ /\ call.op = "CreateSchema" /\ call.step = "wait"
       /\ call.attempts + 1 = MaxAttempts
       /\ schema[CurrentTable] # "ACTIVE"
    \/ /\ call.op = "DropSchema" /\ call.step = "wait"
       /\ call.attempts + 1 = MaxAttempts
       /\ schema[CurrentTable] # "ABSENT"

\* C21: when the request or the wait for the k-th table fails, the schema
\* method returns with that step, and it returns the error of the store for
\* this table; the failing step changes the status of no table and no item,
\* the requests of the call name the first k tables only, a CreateSchema has
\* issued no DeleteTable and set no table to DELETING, and no request is
\* issued after the return.
C21_SchemaFailure ==
    [][/\ call # Idle /\ requests' # requests /\ MustFail =>
             call' = Idle /\ last'.err # NoErr
       /\ call # Idle /\ call' = Idle /\ last'.err # NoErr =>
             /\ last' = Returned(call.op, "", last'.err, Nil)
             /\ last'.err \in StoreErrors
             /\ schema' = schema
             /\ tables' = tables
             /\ \A j \in 1..Len(requests') : requests'[j][2] \in TablesSoFar
             /\ requests'[Len(requests')][2] = CurrentTable
             /\ call.op = "CreateSchema" => Requested("DeleteTable")' = <<>>
       /\ call.op = "CreateSchema" =>
             \A name \in TableNames :
                schema'[name] = "DELETING" => schema[name] = "DELETING"
       /\ call = Idle /\ call' = Idle => requests' = requests
      ]_vars

\* C21 witness: CreateSchema returned the error of the wait for the second
\* table; the first table is ACTIVE, the second is being created, and the
\* third and fourth were never requested.
C21_Witness ==
    /\ call = Idle
    /\ last.op = "CreateSchema"
    /\ last.err = ResourceNotReady
    /\ schema["access"] = "ACTIVE"
    /\ schema["authorize"] = "CREATING"
    /\ schema["client"] = "ABSENT"
    /\ schema["refresh"] = "ABSENT"
    /\ Requested("CreateTable") = <<"access", "authorize">>

\* C22: a CreateSchema that is called while the four tables exist returns an
\* error of the store at its first request, the CreateTable for the access
\* table, and neither its start nor this request changes the status of a
\* table or an item of a table.
C22_SecondCreateSchemaFails ==
    [][/\ call = Idle /\ call'.op = "CreateSchema" =>
             schema' = schema /\ tables' = tables
       /\ /\ call = Started("CreateSchema")
          /\ \A name \in TableNames : schema[name] = "ACTIVE"
          /\ requests' # requests
          => /\ call' = Idle
             /\ last' = Returned("CreateSchema", "", last'.err, Nil)
             /\ last'.err \in {ResourceInUseException,
                               RequestFailure("CreateTable", "access")}
             /\ requests' = << <<"CreateTable", "access">> >>
             /\ schema' = schema
             /\ tables' = tables
      ]_vars

\* C22 witness: CreateSchema returned ResourceInUseException from its first
\* request; the four tables are ACTIVE and hold a client and a token.
C22_Witness ==
    /\ call = Idle
    /\ last = Returned("CreateSchema", "", ResourceInUseException, Nil)
    /\ requests = << <<"CreateTable", "access">> >>
    /\ \A name \in TableNames : schema[name] = "ACTIVE"
    /\ "1234" \in DOMAIN clientTable
    /\ "1" \in DOMAIN accessTable
    /\ "2" \in DOMAIN refreshTable

(* Termination of the schema methods *)

\* One step of the running schema call: its next request or its next poll.
SchemaCallStep ==
    \E ok \in BOOLEAN :
       \/ CreateTableRequest(ok)
       \/ WaitUntilTableExists(ok)
       \/ DeleteTableRequest(ok)
       \/ WaitUntilTableNotExists(ok)

\* The schema methods are straight-line code around requests that are
\* answered: a running call takes its next step.  The store owes nothing: a
\* creation or a deletion may never finish.
SchemaFairSpec == SchemaSpec /\ WF_vars(SchemaCallStep)

\* C23: a call of CreateSchema or DropSchema returns; a waiter polls at most
\* MaxAttempts times for a table, so a call issues at most one request and
\* MaxAttempts polls for each of the four tables.
C23_SchemaCallsReturn ==
    /\ [](/\ call # Idle => call.attempts < MaxAttempts
          /\ Len(requests) <= 4 * (1 + MaxAttempts))
    /\ (call # Idle ~> call = Idle)

\* C23 witness: CreateSchema returned the waiter's error after MaxAttempts
\* polls of the access table, which is still being created.
C23_Witness ==
    /\ call = Idle
    /\ last = Returned("CreateSchema", "", ResourceNotReady, Nil)
    /\ schema["access"] = "CREATING"
    /\ Len(Requested("DescribeTable")) = MaxAttempts
    /\ \A j \in 1..MaxAttempts : Requested("DescribeTable")[j] = "access"

-----------------------------------------------------------------------------
(* Concurrent callers *)

\* Two goroutines share one Storage.  A Storage method runs local code
\* around its requests to DynamoDB; DynamoDB serves the requests of all
\* callers one at a time, so a step of a caller is one request together with
\* the local code up to the next request or the return.
Callers == {"a", "b"}

\* The items of the four tables as one value.
Items ==
    [client |-> clientTable, authorize |-> authorizeTable,
     access |-> accessTable, refresh |-> refreshTable]

NoItems ==
    [client |-> EmptyTable, authorize |-> EmptyTable,
     access |-> EmptyTable, refresh |-> EmptyTable]

\* A call of a Storage method: the method, its argument, and whether
\* DynamoDB serves its request, and the refresh write of SaveAccess.
MethodCall(method, arg, ok, okRefresh) ==
    [method |-> method, arg |-> arg, ok |-> ok, okRefresh |-> okRefresh]

\* The calls a caller may make.  The writes may fail at the store.
MethodCalls ==
    {MethodCall("CreateClient", client, ok, TRUE) :
        client \in ClientInputs, ok \in BOOLEAN}
    \cup {MethodCall("GetClient", id, TRUE, TRUE) : id \in ClientIds}
    \cup {MethodCall("RemoveClient", id, TRUE, TRUE) : id \in ClientIds}
    \cup {MethodCall("SaveAuthorize", authorizeData, ok, TRUE) :
             authorizeData \in AuthorizeInputs, ok \in BOOLEAN}
    \cup {MethodCall("LoadAuthorize", code, TRUE, TRUE) : code \in Codes}
    \cup {MethodCall("RemoveAuthorize", code, TRUE, TRUE) : code \in Codes}
    \cup {MethodCall("SaveAccess", accessData, ok, okRefresh) :
             accessData \in AccessInputs, ok \in BOOLEAN,
             okRefresh \in BOOLEAN}
    \cup {MethodCall("LoadAccess", token, TRUE, TRUE) : token \in Tokens}
    \cup {MethodCall("RemoveAccess", token, TRUE, TRUE) : token \in Tokens}
    \cup {MethodCall("SaveRefresh", accessData, ok, TRUE) :
             accessData \in AccessInputs, ok \in BOOLEAN}
    \cup {MethodCall("LoadRefresh", token, TRUE, TRUE) : token \in Tokens}
    \cup {MethodCall("RemoveRefresh", token, TRUE, TRUE) : token \in Tokens}

\* The methods that issue one request.
OneRequestMethods ==
    {"CreateClient", "GetClient", "RemoveClient", "SaveAuthorize",
     "LoadAuthorize", "RemoveAuthorize", "LoadAccess", "RemoveAccess",
     "SaveRefresh", "LoadRefresh", "RemoveRefresh"}

\* The method call run from its first statement to its return with no other
\* caller in between, on the items given, at the time t: the items it
\* leaves, the error and the value it returns.
Outcome(mc, items, t) ==
    LET write(name, r) ==
            [items |-> [items EXCEPT ![name] = r.table], err |-> r.err,
             val |-> Nil]
        read(r) == [items |-> items, err |-> r.err, val |-> r.val]
    IN  CASE mc.method = "CreateClient" ->
               write("client", CreateClientResult(items.client, mc.arg, mc.ok))
          [] mc.method = "GetClient" ->
               read(GetClientResult(items.client, mc.arg, mc.ok))
          [] mc.method = "RemoveClient" ->
               write("client", RemoveClientResult(items.client, mc.arg, mc.ok))
          [] mc.method = "SaveAuthorize" ->
               write("authorize",
                     SaveAuthorizeResult(items.authorize, mc.arg, mc.ok))
          [] mc.method = "LoadAuthorize" ->
               read(LoadAuthorizeResult(items.authorize, mc.arg, t, mc.ok))
          [] mc.method = "RemoveAuthorize" ->
               write("authorize",
                     RemoveAuthorizeResult(items.authorize, mc.arg, mc.ok))
          [] mc.method = "SaveAccess" ->
               LET r == SaveAccessResult(items.access, items.refresh, mc.arg,
                                         mc.ok, mc.okRefresh)
               IN  [items |-> [items EXCEPT !.access = r.access,
                                            !.refresh = r.refresh],
                    err |-> r.err, val |-> Nil]
          [] mc.method = "LoadAccess" ->
               read(LoadAccessResult(items.access, mc.arg, CreateUserData, t,
                                     mc.ok))
          [] mc.method = "RemoveAccess" ->
               write("access", RemoveAccessResult(items.access, mc.arg, mc.ok))
          [] mc.method = "SaveRefresh" ->
               write("refresh",
                     SaveRefreshResult(items.refresh, mc.arg, mc.ok))
          [] mc.method = "LoadRefresh" ->
               read(LoadRefreshResult(items.refresh, mc.arg, t, mc.ok))
          [] mc.method = "RemoveRefresh" ->
               write("refresh",
                     RemoveRefreshResult(items.refresh, mc.arg, mc.ok))

\* The request of a method of one request: operation, table and key.
RequestOf(mc) ==
    CASE mc.method = "CreateClient" -> <<"PutItem", "client", mc.arg.Id>>
      [] mc.method = "GetClient" -> <<"GetItem", "client", mc.arg>>
      [] mc.method = "RemoveClient" -> <<"DeleteItem", "client", mc.arg>>
      [] mc.method = "SaveAuthorize" -> <<"PutItem", "authorize", mc.arg.Code>>
      [] mc.method = "LoadAuthorize" -> <<"GetItem", "authorize", mc.arg>>
      [] mc.method = "RemoveAuthorize" -> <<"DeleteItem", "authorize", mc.arg>>
      [] mc.method = "LoadAccess" -> <<"GetItem", "access", mc.arg>>
      [] mc.method = "RemoveAccess" -> <<"DeleteItem", "access", mc.arg>>
      [] mc.method = "SaveRefresh" ->
           <<"PutItem", "refresh", mc.arg.RefreshToken>>
      [] mc.method = "LoadRefresh" -> <<"GetItem", "refresh", mc.arg>>
      [] mc.method = "RemoveRefresh" -> <<"DeleteItem", "refresh", mc.arg>>

\* json.Marshal of the argument fails: the save returns before its request.
ReturnsBeforeRequest(mc) ==
    /\ mc.method \in {"CreateClient", "SaveAuthorize", "SaveAccess",
                      "SaveRefresh"}
    /\ MarshalFails(mc.arg.UserData)

\* A request as the log keeps it: who issued it, the operation, the table,
\* the key, and whether DynamoDB served it.
Logged(c, request, served) ==
    [caller |-> c, request |-> request[1], table |-> request[2],
     key |-> request[3], served |-> served]

\* The caller has called the method and issued no request yet.
Calling(mc) == [call |-> mc, step |-> "request", err |-> NoErr, val |-> Nil]

\* The method of the caller returns.
ReturnTo(c, err, val) ==
    callers' = [callers EXCEPT ![c].step = "returned", ![c].err = err,
                               ![c].val = val]

\* LoadAuthorize that consumes the code: the call that returns the record
\* deletes it.  The other methods are as they are.
OneRequest_ConsumesCode(c) ==
    LET mc == callers[c].call
        r == Outcome(mc, Items, now)
        request == RequestOf(mc)
        consumed == mc.method = "LoadAuthorize" /\ r.err = NoErr
    IN  /\ callers[c].step = "request"
        /\ mc.method \in OneRequestMethods
        /\ clientTable' = r.items.client
        /\ authorizeTable'
              = IF consumed
                THEN [k \in DOMAIN r.items.authorize \ {mc.arg} |->
                         r.items.authorize[k]]
                ELSE r.items.authorize
        /\ accessTable' = r.items.access
        /\ refreshTable' = r.items.refresh
        /\ ReturnTo(c, r.err, r.val)
        /\ log' = IF ReturnsBeforeRequest(mc) THEN log
                  ELSE Append(log,
                         Logged(c, request,
                                r.err # RequestFailure(request[1],
                                                       request[2])))
        /\ UNCHANGED <<now, last, schemaVars, start>>

\* A method of one request: its request and what follows it up to the
\* return.
OneRequest(c) ==
    LET mc == callers[c].call
        r == Outcome(mc, Items, now)
        request == RequestOf(mc)
    IN  /\ callers[c].step = "request"
        /\ mc.method \in OneRequestMethods
        /\ clientTable' = r.items.client
        /\ authorizeTable' = r.items.authorize
        /\ accessTable' = r.items.access
        /\ refreshTable' = r.items.refresh
        /\ ReturnTo(c, r.err, r.val)
        /\ log' = IF ReturnsBeforeRequest(mc) THEN log
                  ELSE Append(log,
                         Logged(c, request,
                                r.err # RequestFailure(request[1],
                                                       request[2])))
        /\ UNCHANGED <<now, last, schemaVars, start>>

\* SaveAccess that goes on to its call of SaveRefresh when the PutItem of the
\* access item has failed.
SaveAccessPut_IgnoresError(c) ==
    LET accessData == callers[c].call.arg
        items == [token |-> accessData.AccessToken,
                  json |-> MarshalAccessData(accessData)]
        merged == IF IsUserData(accessData.UserData)
                  THEN MergeAttributes(items,
                           ToAttributeValues(accessData.UserData))
                  ELSE items
        put == PutItem(accessTable, "access", "token", merged,
                       callers[c].call.ok)
    IN  /\ callers[c].step = "request"
        /\ callers[c].call.method = "SaveAccess"
        /\ IF MarshalFails(accessData.UserData)
           THEN /\ ReturnTo(c, UnsupportedTypeError, Nil)
                /\ UNCHANGED <<accessTable, log>>
           ELSE /\ accessTable' = put.table
                /\ log' = Append(log,
                            Logged(c, <<"PutItem", "access", merged.token>>,
                                   put.err = NoErr))
                /\ IF accessData.RefreshToken # ""
                   THEN callers' = [callers EXCEPT ![c].step = "refresh"]
                   ELSE ReturnTo(c, put.err, Nil)
        /\ UNCHANGED <<clientTable, authorizeTable, refreshTable, now, last,
                       schemaVars, start>>

\* SaveAccess up to its call of SaveRefresh: the PutItem of the access item.
SaveAccessPut(c) ==
    LET accessData == callers[c].call.arg
        items == [token |-> accessData.AccessToken,
                  json |-> MarshalAccessData(accessData)]
        merged == IF IsUserData(accessData.UserData)
                  THEN MergeAttributes(items,
                           ToAttributeValues(accessData.UserData))
                  ELSE items
        put == PutItem(accessTable, "access", "token", merged,
                       callers[c].call.ok)
    IN  /\ callers[c].step = "request"
        /\ callers[c].call.method = "SaveAccess"
        /\ IF MarshalFails(accessData.UserData)
           THEN /\ ReturnTo(c, UnsupportedTypeError, Nil)
                /\ UNCHANGED <<accessTable, log>>
           ELSE /\ accessTable' = put.table
                /\ log' = Append(log,
                            Logged(c, <<"PutItem", "access", merged.token>>,
                                   put.err = NoErr))
                /\ IF put.err # NoErr
                   THEN ReturnTo(c, put.err, Nil)
                   ELSE IF accessData.RefreshToken # ""
                   THEN callers' = [callers EXCEPT ![c].step = "refresh"]
                   ELSE ReturnTo(c, NoErr, Nil)
        /\ UNCHANGED <<clientTable, authorizeTable, refreshTable, now, last,
                       schemaVars, start>>

\* The end of a SaveAccess that mirrors what the access table holds under the
\* access token at that moment, not the record of its own call.
SaveAccessRefresh_MirrorsStored(c) ==
    LET accessData == callers[c].call.arg
        stored == IF accessData.AccessToken \in DOMAIN accessTable
                  THEN accessTable[accessData.AccessToken].json
                  ELSE MarshalAccessData(accessData)
        r == PutItem(refreshTable, "refresh", "token",
                     [token |-> accessData.RefreshToken, json |-> stored],
                     callers[c].call.okRefresh)
    IN  /\ callers[c].step = "refresh"
        /\ refreshTable' = r.table
        /\ log' = Append(log,
                    Logged(c, <<"PutItem", "refresh",
                                accessData.RefreshToken>>, r.err = NoErr))
        /\ ReturnTo(c, r.err, Nil)
        /\ UNCHANGED <<clientTable, authorizeTable, accessTable, now, last,
                       schemaVars, start>>

\* The end of SaveAccess: its call of SaveRefresh, whose error it returns.
SaveAccessRefresh(c) ==
    LET accessData == callers[c].call.arg
        r == SaveRefreshResult(refreshTable, accessData,
                               callers[c].call.okRefresh)
    IN  /\ callers[c].step = "refresh"
        /\ refreshTable' = r.table
        /\ log' = Append(log,
                    Logged(c, <<"PutItem", "refresh",
                                accessData.RefreshToken>>, r.err = NoErr))
        /\ ReturnTo(c, r.err, Nil)
        /\ UNCHANGED <<clientTable, authorizeTable, accessTable, now, last,
                       schemaVars, start>>

\* What one call leaves of an empty store.
StartItems ==
    {NoItems} \cup {Outcome(mc, NoItems, 0).items : mc \in MethodCalls}

\* Both callers have called a method of a Storage whose tables hold what an
\* earlier call left.
ConcurrentInit ==
    /\ \E items \in StartItems :
          /\ clientTable = items.client
          /\ authorizeTable = items.authorize
          /\ accessTable = items.access
          /\ refreshTable = items.refresh
          /\ start = items
    /\ callers \in [Callers -> {Calling(mc) : mc \in MethodCalls}]
    /\ log = <<>>
    /\ now = 0
    /\ last = Returned("New", "", NoErr, Nil)
    /\ schema = [name \in TableNames |-> "ACTIVE"]
    /\ call = Idle
    /\ requests = <<>>

ConcurrentNext ==
    \E c \in Callers :
       \/ OneRequest(c)
       \/ SaveAccessPut(c)
       \/ SaveAccessRefresh(c)

ConcurrentSpec == ConcurrentInit /\ [][ConcurrentNext]_vars

\* The (table, key) pairs the requests of a method call name.
Touched(mc) ==
    IF mc.method = "SaveAccess"
    THEN {<<"access", mc.arg.AccessToken>>}
         \cup (IF mc.arg.RefreshToken # ""
               THEN {<<"refresh", mc.arg.RefreshToken>>} ELSE {})
    ELSE {<<RequestOf(mc)[2], RequestOf(mc)[3]>>}

\* Both callers are back from their methods.
BothReturned == \A c \in Callers : callers[c].step = "returned"

\* The first method call run to its end and then the second, from the items
\* the callers started on: the items left and what each call returned.
OneAfterTheOther(first, second) ==
    LET one == Outcome(callers[first].call, start, now)
        two == Outcome(callers[second].call, one.items, now)
    IN  [items |-> two.items,
         returned |-> [c \in {first, second} |->
                          IF c = first
                          THEN [err |-> one.err, val |-> one.val]
                          ELSE [err |-> two.err, val |-> two.val]]]

\* C24: when two concurrent method calls that touch no common (table, key)
\* pair have both returned, the tables hold, and each call returned, what
\* running the two calls one after the other gives, in either order.
C24_NonInterference ==
    BothReturned /\ Touched(callers["a"].call) \cap Touched(callers["b"].call) = {}
    => \A order \in {<<"a", "b">>, <<"b", "a">>} :
          LET sequential == OneAfterTheOther(order[1], order[2])
          IN  /\ Items = sequential.items
              /\ \A c \in Callers :
                    /\ callers[c].err = sequential.returned[c].err
                    /\ callers[c].val = sequential.returned[c].val

\* C24 witness: on a store that holds the access token "2", a SaveAccess of
\* token "1" with refresh token "2" and a RemoveAccess of token "2" ran
\* with the DeleteItem between the two writes of SaveAccess; all three
\* requests were served.
C24_Witness ==
    /\ BothReturned
    /\ Touched(callers["a"].call) \cap Touched(callers["b"].call) = {}
    /\ callers["a"].call.method = "SaveAccess"
    /\ callers["b"].call = MethodCall("RemoveAccess", "2", TRUE, TRUE)
    /\ "2" \in DOMAIN start.access
    /\ Len(log) = 3
    /\ \A j \in 1..3 : log[j].served
    /\ log[2].caller = "b"
    /\ DOMAIN accessTable = {"1"}
    /\ "2" \in DOMAIN refreshTable

\* The writes the store has applied to the key of the table, in the order
\* it applied them.
Applied(name, key) ==
    SelectSeq(log, LAMBDA e : /\ e.table = name /\ e.key = key /\ e.served
                              /\ e.request \in {"PutItem", "DeleteItem"})

\* The item the method call of the caller writes to the table: what the call
\* leaves of an empty table.
WrittenBy(c, name) == Outcome(callers[c].call, NoItems, now).items[name]

\* The store was told to serve the request of the log entry.
ToldToServe(e) ==
    IF callers[e.caller].call.method = "SaveAccess" /\ e.table = "refresh"
    THEN callers[e.caller].call.okRefresh
    ELSE callers[e.caller].call.ok

\* C25: whatever the other caller does, a write is rejected only when the
\* store fails it or its key is empty; and the item stored under a key is at
\* every moment the whole item of the last PutItem the store applied to the
\* key, no item after a DeleteItem, and the item of the start when no write
\* was applied.
C25_LastWriteWins ==
    /\ \A j \in 1..Len(log) :
          log[j].served <=> ToldToServe(log[j]) /\ log[j].key # ""
    /\ \A name \in TableNames, key \in ClientIds \cup Codes \cup Tokens :
          LET applied == Applied(name, key)
              lastWrite == applied[Len(applied)]
          IN  IF applied = <<>>
              THEN /\ key \in DOMAIN Items[name] <=> key \in DOMAIN start[name]
                   /\ key \in DOMAIN Items[name] =>
                         Items[name][key] = start[name][key]
              ELSE IF lastWrite.request = "DeleteItem"
              THEN key \notin DOMAIN Items[name]
              ELSE /\ key \in DOMAIN Items[name]
                   /\ Items[name][key]
                         = WrittenBy(lastWrite.caller, name)[key]

\* C25 witness: two SaveAccess calls wrote the access token "1", first the
\* record whose user data projects username, then a record without user
\* data; both writes were served, and the stored item is the second one,
\* without username.
C25_Witness ==
    /\ BothReturned
    /\ \A c \in Callers : callers[c].call.method = "SaveAccess"
    /\ Len(Applied("access", "1")) = 2
    /\ Applied("access", "1")[1].caller = "a"
    /\ Applied("access", "1")[2].caller = "b"
    /\ callers["a"].call.arg.UserData = UserDataTest("kamil")
    /\ callers["b"].call.arg.UserData = Nil
    /\ "username" \in DOMAIN WrittenBy("a", "access")["1"]
    /\ DOMAIN accessTable["1"] = {"token", "json"}
    /\ accessTable["1"] = WrittenBy("b", "access")["1"]

-----------------------------------------------------------------------------
(* Frame of SaveRefresh and of the client methods *)

\* After a SaveRefresh that returned nil, the item under the refresh token
\* is the item {token, json} of a record with this refresh token;
\* LoadRefresh on the token finds the item and answers as it answers for the
\* mirror SaveAccess writes of the record, with the record itself while the
\* record has not expired and nests no client; and RemoveRefresh deletes
\* the item.
SavedRefreshLoads ==
    last.op = "SaveRefresh" /\ last.err = NoErr =>
       /\ \E rec \in AccessInputs :
             refreshTable[last.key]
                = [token |-> rec.RefreshToken, json |-> MarshalAccessData(rec)]
       /\ \A rec \in AccessInputs :
             /\ rec.RefreshToken = last.key
             /\ refreshTable[last.key].json = MarshalAccessData(rec)
             => LET R == rec.RefreshToken
                    mirror == SaveAccessResult(EmptyTable, EmptyTable, rec,
                                               TRUE, TRUE).refresh
                    removed == RemoveRefreshResult(refreshTable, R, TRUE)
                IN  /\ \A t \in Later :
                          LET got == LoadRefreshResult(refreshTable, R, t,
                                                       TRUE)
                          IN  /\ got.err # ErrRefreshNotFound
                              /\ got = LoadRefreshResult(mirror, R, t, TRUE)
                              /\ Unexpired(rec, t) /\ ~NestsClient(rec) =>
                                    /\ got.err = NoErr
                                    /\ EqualAccessData(got.val, rec)
                    /\ removed.err = NoErr
                    /\ DOMAIN removed.table = DOMAIN refreshTable \ {R}

\* In every state, with or without access items, SaveRefresh of a record
\* that encodes and has a refresh token returns nil when its request is
\* served.
SaveRefreshSucceeds ==
    \A rec \in AccessInputs :
       ~MarshalFails(rec.UserData) /\ rec.RefreshToken # "" =>
          SaveRefreshResult(refreshTable, rec, TRUE).err = NoErr

ClientWrites == {"CreateClient", "RemoveClient"}

\* After CreateClient or RemoveClient, whatever the client table holds, a
\* load of a stored code or token that returns a record returns the record
\* that was saved, with the client of the record as it was saved.
LoadsKeepSavedClient ==
    last.op \in ClientWrites =>
       /\ \A code \in DOMAIN authorizeTable :
             LET got == LoadAuthorizeResult(authorizeTable, code, now, TRUE)
             IN  got.val # Nil =>
                    \E rec \in AuthorizeInputs :
                       /\ authorizeTable[code].json = MarshalAuthorizeData(rec)
                       /\ EqualAuthorizeData(got.val, rec)
                       /\ EqualClient(got.val.Client, rec.Client)
       /\ \A token \in DOMAIN accessTable, createUserData \in ConfigInputs :
             LET got == LoadAccessResult(accessTable, token, createUserData,
                                         now, TRUE)
             IN  got.val # Nil =>
                    \E rec \in AccessInputs :
                       /\ accessTable[token].json = MarshalAccessData(rec)
                       /\ EqualAccessData(got.val, rec)
                       /\ EqualClient(got.val.Client, rec.Client)
       /\ \A token \in DOMAIN refreshTable :
             LET got == LoadRefreshResult(refreshTable, token, now, TRUE)
             IN  got.val # Nil =>
                    \E rec \in AccessInputs :
                       /\ refreshTable[token].json = MarshalAccessData(rec)
                       /\ EqualAccessData(got.val, rec)
                       /\ EqualClient(got.val.Client, rec.Client)

\* C27: CreateClient and RemoveClient change no item of the authorize,
\* access and refresh tables, so every load answers after them as before
\* them; and the records the loads return carry the client as it was saved,
\* whether the client table holds the client, another client under its id,
\* or nothing (LoadsKeepSavedClient).
C27_EmbeddedClientIsSnapshot ==
    /\ [][last'.op \in ClientWrites =>
             /\ authorizeTable' = authorizeTable
             /\ accessTable' = accessTable
             /\ refreshTable' = refreshTable
             /\ now' = now
         ]_vars
    /\ []LoadsKeepSavedClient

\* C27 witness: RemoveClient has deleted the client "1234"; the code and the
\* token saved for this client are stored, and LoadAuthorize and LoadAccess
\* return them with the client as it was saved.
C27_Witness ==
    /\ last = Returned("RemoveClient", "1234", NoErr, Nil)
    /\ clientTable = EmptyTable
    /\ "9999" \in DOMAIN authorizeTable
    /\ "1" \in DOMAIN accessTable
    /\ "2" \in DOMAIN refreshTable
    /\ LET code == LoadAuthorizeResult(authorizeTable, "9999", now, TRUE)
           token == LoadAccessResult(accessTable, "1", Nil, now, TRUE)
           mirror == LoadRefreshResult(refreshTable, "2", now, TRUE)
       IN  /\ code.err = NoErr /\ token.err = NoErr /\ mirror.err = NoErr
           /\ EqualClient(code.val.Client, TestClient)
           /\ EqualClient(token.val.Client, TestClient)
           /\ EqualClient(mirror.val.Client, TestClient)

-----------------------------------------------------------------------------
(* Requests of a method call *)

\* The requests the caller has issued, in order, and which of them the store
\* served.
RequestsBy(c) ==
    LET own == SelectSeq(log, LAMBDA e : e.caller = c)
    IN  [j \in 1..Len(own) |-> <<own[j].request, own[j].table, own[j].key>>]

ServedTo(c) ==
    LET own == SelectSeq(log, LAMBDA e : e.caller = c)
    IN  [j \in 1..Len(own) |-> own[j].served]

\* The two writes of SaveAccess.
AccessWrite(mc) == <<"PutItem", "access", mc.arg.AccessToken>>
RefreshWrite(mc) == <<"PutItem", "refresh", mc.arg.RefreshToken>>

\* The requests of SaveAccess once it has returned: the access write, and
\* after it the refresh write when the record has a refresh token and the
\* access write was served.
SaveAccessRequests(c) ==
    LET mc == callers[c].call
    IN  /\ Len(RequestsBy(c)) >= 1
        /\ RequestsBy(c)[1] = AccessWrite(mc)
        /\ IF mc.arg.RefreshToken # "" /\ ServedTo(c)[1]
           THEN RequestsBy(c) = <<AccessWrite(mc), RefreshWrite(mc)>>
           ELSE RequestsBy(c) = <<AccessWrite(mc)>>
        /\ ~ServedTo(c)[1] =>
              callers[c].err = RequestFailure("PutItem", "access")

\* A request that the store does not serve changes no item, and the method
\* that issued it returns with the error of the request.
FailedRequestReturns ==
    Len(log') > Len(log) /\ ~log'[Len(log')].served =>
       LET e == log'[Len(log')]
       IN  /\ Items' = Items
           /\ callers'[e.caller].step = "returned"
           /\ callers'[e.caller].err = RequestFailure(e.request, e.table)

\* C28 as stated: a method call that has returned has issued exactly one
\* request, and SaveAccess of a record with a refresh token the access write
\* and then, unless the access write failed, the refresh write; a failed
\* request changes no item and ends the call.
C28_OneRequestEach ==
    /\ [](\A c \in Callers :
             callers[c].step = "returned" =>
                IF callers[c].call.method = "SaveAccess"
                THEN SaveAccessRequests(c)
                ELSE RequestsBy(c) = <<RequestOf(callers[c].call)>>)
    /\ [][FailedRequestReturns]_vars

\* C28, amended: a save whose argument json.Marshal cannot encode returns
\* UnsupportedTypeError without any request; every other method call that
\* has returned has issued exactly one request, and SaveAccess of a record
\* with a refresh token the access write and then, unless the access write
\* failed, the refresh write; between its two writes SaveAccess has issued
\* the access write only; a failed request changes no item and ends the
\* call.
C28_RequestDiscipline ==
    /\ [](\A c \in Callers :
             LET mc == callers[c].call
             IN  /\ callers[c].step = "request" => RequestsBy(c) = <<>>
                 /\ callers[c].step = "refresh" =>
                       /\ RequestsBy(c) = <<AccessWrite(mc)>>
                       /\ ServedTo(c) = <<TRUE>>
                 /\ callers[c].step = "returned" =>
                       IF ReturnsBeforeRequest(mc)
                       THEN /\ RequestsBy(c) = <<>>
                            /\ callers[c].err = UnsupportedTypeError
                       ELSE IF mc.method = "SaveAccess"
                       THEN SaveAccessRequests(c)
                       ELSE RequestsBy(c) = <<RequestOf(mc)>>)
    /\ [][FailedRequestReturns]_vars

\* C28 witness: the access write of a SaveAccess of a record with a refresh
\* token failed and the call returned that error after this one request,
\* with no item of this access token or refresh token stored; the other
\* caller's SaveAccess issued its two writes.
C28_Witness ==
    /\ BothReturned
    /\ \A c \in Callers : callers[c].call.method = "SaveAccess"
    /\ callers["a"].call.arg.RefreshToken = "2"
    /\ callers["a"].call.arg.AccessToken = "1"
    /\ callers["a"].err = RequestFailure("PutItem", "access")
    /\ RequestsBy("a") = <<AccessWrite(callers["a"].call)>>
    /\ RequestsBy("b") = <<AccessWrite(callers["b"].call),
                           RefreshWrite(callers["b"].call)>>
    /\ callers["b"].call.arg.AccessToken = "2"
    /\ "1" \notin DOMAIN accessTable
    /\ start = NoItems

-----------------------------------------------------------------------------
(* LoadRefresh beside LoadAccess *)

\* C29: with config.CreateUserData set, while the access item and the
\* mirror that SaveAccess wrote of a record are both stored, LoadRefresh on
\* the refresh token returns what LoadAccess on the access token returns:
\* the same error, or the same record with the user data in the shape the
\* hook gives it.
C29_LoadRefreshLikeLoadAccess ==
    \A rec \in AccessInputs :
       SavedWithMirror(rec) =>
          LET token == LoadAccessResult(accessTable, rec.AccessToken,
                                        CreateUserData, now, TRUE)
              mirror == LoadRefreshResult(refreshTable, rec.RefreshToken,
                                          now, TRUE)
          IN  /\ mirror.err = token.err
              /\ mirror.val = token.val

-----------------------------------------------------------------------------
(* Projected attributes beside the key and the payload *)

\* The user data of a record: none, or an implementation of UserData that
\* projects the user name as username, as token or as json.
ProjectingUserData ==
    {Nil, UserDataTest("2"), UserDataAsToken("2"), UserDataAsJson("2")}

\* Token records with each of these user data.
ProjectingInputs ==
    {AccessData(TestClient, Nil, Nil, token, refresh, 1, 0, userData) :
        token \in Tokens, refresh \in {"", "2"},
        userData \in ProjectingUserData}

\* A Storage on empty tables whose callers save and remove tokens with
\* these user data.
ProjectionNext ==
    \/ \E accessData \in ProjectingInputs, okAccess \in BOOLEAN,
          okRefresh \in BOOLEAN :
          SaveAccess(accessData, okAccess, okRefresh)
    \/ \E token \in Tokens, ok \in BOOLEAN : RemoveAccess(token, ok)
    \/ \E accessData \in ProjectingInputs, ok \in BOOLEAN :
          SaveRefresh(accessData, ok)
    \/ \E token \in Tokens, ok \in BOOLEAN : RemoveRefresh(token, ok)

ProjectionSpec == Init /\ [][ProjectionNext]_vars

\* C30: after a SaveAccess that returned nil, the access table holds under
\* the access token of the record an item whose token attribute is the
\* access token and whose json attribute is the encoded record, and which
\* holds every projected attribute of another name.
C30_KeyAndPayloadSurvive ==
    [][last'.op = "SaveAccess" /\ last'.err = NoErr =>
          \A rec \in ProjectingInputs :
             SaveAccess(rec, TRUE, TRUE) =>
                LET T == rec.AccessToken
                    item == accessTable'[T]
                IN  /\ T \in DOMAIN accessTable'
                    /\ item.token = T
                    /\ item.json = MarshalAccessData(rec)
                    /\ IsUserData(rec.UserData) =>
                          \A n \in DOMAIN ToAttributeValues(rec.UserData)
                                      \ {"token", "json"} :
                             /\ n \in DOMAIN item
                             /\ item[n] = ToAttributeValues(rec.UserData)[n]
      ]_vars

\* The same holds of the records whose user data projects neither token nor
\* json.
OtherNamesKept ==
    [][last'.op = "SaveAccess" /\ last'.err = NoErr =>
          \A rec \in ProjectingInputs :
             /\ SaveAccess(rec, TRUE, TRUE)
             /\ IsUserData(rec.UserData) =>
                   DOMAIN ToAttributeValues(rec.UserData)
                      \cap {"token", "json"} = {}
             => LET T == rec.AccessToken
                    item == accessTable'[T]
                IN  /\ T \in DOMAIN accessTable'
                    /\ item.token = T
                    /\ item.json = MarshalAccessData(rec)
                    /\ IsUserData(rec.UserData) =>
                          \A n \in DOMAIN ToAttributeValues(rec.UserData) :
                             /\ n \in DOMAIN item
                             /\ item[n] = ToAttributeValues(rec.UserData)[n]
      ]_vars

-----------------------------------------------------------------------------
(* Token records with nested grant data *)

\* C31: while the access item that SaveAccess wrote of a record that nests
\* a code or a previous token with a client of its own is stored and the
\* record has not expired, LoadAccess on its access token returns no error
\* and a record equal to the one saved, and so does LoadRefresh on its
\* refresh token while the mirror is stored.
C31_NestedRoundTrip ==
    \A rec \in AccessInputs :
       /\ NestsClient(rec)
       /\ Unexpired(rec, now)
       /\ rec.AccessToken \in DOMAIN accessTable
       /\ accessTable[rec.AccessToken].json = MarshalAccessData(rec)
       => /\ \A createUserData \in ConfigInputs :
                LET got == LoadAccessResult(accessTable, rec.AccessToken,
                                            createUserData, now, TRUE)
                IN  /\ got.err = NoErr
                    /\ EqualAccessData(got.val, rec)
          /\ SavedWithMirror(rec) =>
                LET mirror == LoadRefreshResult(refreshTable,
                                                rec.RefreshToken, now, TRUE)
                IN  /\ mirror.err = NoErr
                    /\ EqualAccessData(mirror.val, rec)

-----------------------------------------------------------------------------
(* Two SaveAccess calls on the same tokens *)

\* Both callers have returned from SaveAccess of records with the same
\* access token and the same refresh token, and the store served the four
\* writes.
BothSavedSameTokens ==
    /\ BothReturned
    /\ \A c \in Callers : callers[c].call.method = "SaveAccess"
    /\ callers["a"].call.arg.AccessToken = callers["b"].call.arg.AccessToken
    /\ callers["a"].call.arg.RefreshToken = callers["b"].call.arg.RefreshToken
    /\ Len(log) = 4
    /\ \A j \in 1..4 : log[j].served

\* The callers whose writes the log holds, in order.
WriteOrder == [j \in 1..Len(log) |-> log[j].caller]

\* C32: when two SaveAccess calls on the same access token T and refresh
\* token R have returned with their four writes served, both returned nil,
\* the access item under T is the item of the call whose access write came
\* last and the refresh item under R is the item of the call whose refresh
\* write came last; in the order a, b, b, a these are the access item of b
\* and the refresh item of a.
C32_DualWriteRace ==
    BothSavedSameTokens =>
       LET T == callers["a"].call.arg.AccessToken
           R == callers["a"].call.arg.RefreshToken
           lastAccess == Applied("access", T)[2].caller
           lastRefresh == Applied("refresh", R)[2].caller
       IN  /\ \A c \in Callers : callers[c].err = NoErr
           /\ accessTable[T] = WrittenBy(lastAccess, "access")[T]
           /\ refreshTable[R] = WrittenBy(lastRefresh, "refresh")[R]
           /\ WriteOrder = <<"a", "b", "b", "a">> =>
                 /\ accessTable[T].json
                       = MarshalAccessData(callers["b"].call.arg)
                 /\ refreshTable[R].json
                       = MarshalAccessData(callers["a"].call.arg)

\* C32 witness: two SaveAccess calls of records with the access token "1",
\* the refresh token "2" and different payloads wrote in the order a, b, b,
\* a and both returned nil; the access item holds the payload of b, the
\* refresh item the payload of a, and the two payloads differ.
C32_Witness ==
    /\ BothSavedSameTokens
    /\ WriteOrder = <<"a", "b", "b", "a">>
    /\ callers["a"].call.arg.AccessToken = "1"
    /\ callers["a"].call.arg.RefreshToken = "2"
    /\ callers["a"].err = NoErr
    /\ callers["b"].err = NoErr
    /\ accessTable["1"].json = MarshalAccessData(callers["b"].call.arg)
    /\ refreshTable["2"].json = MarshalAccessData(callers["a"].call.arg)
    /\ accessTable["1"].json # refreshTable["2"].json

-----------------------------------------------------------------------------
(* The exchange of an authorization code *)

\* A caller that exchanges a code, as osin's access request does: it calls
\* LoadAuthorize and, when that returned the record, RemoveAuthorize.
\* loaded is the record the caller holds.
Exchanging(code) ==
    [call |-> MethodCall("LoadAuthorize", code, TRUE, TRUE),
     step |-> "request", err |-> NoErr, val |-> Nil, loaded |-> Nil]

\* The caller has the record and goes on to call RemoveAuthorize.
ThenRemoveAuthorize(c) ==
    /\ callers[c].call.method = "LoadAuthorize"
    /\ callers[c].step = "returned"
    /\ callers[c].err = NoErr
    /\ callers' = [callers EXCEPT
                      ![c] = [call |-> MethodCall("RemoveAuthorize",
                                                  callers[c].call.arg,
                                                  TRUE, TRUE),
                              step |-> "request", err |-> NoErr,
                              val |-> Nil, loaded |-> callers[c].val]]
    /\ UNCHANGED <<tables, now, last, schemaVars, start, log>>

\* Two callers exchange the same code on tables that hold what an earlier
\* call left.
ExchangeInit ==
    /\ \E items \in StartItems :
          /\ clientTable = items.client
          /\ authorizeTable = items.authorize
          /\ accessTable = items.access
          /\ refreshTable = items.refresh
          /\ start = items
    /\ \E code \in Codes : callers = [c \in Callers |-> Exchanging(code)]
    /\ log = <<>>
    /\ now = 0
    /\ last = Returned("New", "", NoErr, Nil)
    /\ schema = [name \in TableNames |-> "ACTIVE"]
    /\ call = Idle
    /\ requests = <<>>

ExchangeNext ==
    \/ \E c \in Callers : OneRequest(c)
    \/ \E c \in Callers : ThenRemoveAuthorize(c)
    \/ Tick

ExchangeSpec == ExchangeInit /\ [][ExchangeNext]_vars

\* C33: a LoadAuthorize step changes no item; while the code is stored and
\* its record has not expired LoadAuthorize returns the record, to every
\* caller and however often; and a caller that has returned from
\* LoadAuthorize before any RemoveAuthorize was served, at a time at which
\* the record had not expired, holds the record.
C33_LoadDoesNotConsume ==
    /\ [][\A c \in Callers :
             /\ callers[c].call.method = "LoadAuthorize"
             /\ callers[c].step = "request"
             /\ callers'[c].step = "returned"
             => Items' = Items
         ]_vars
    /\ [](\A code \in DOMAIN authorizeTable, rec \in AuthorizeInputs :
             /\ authorizeTable[code].json = MarshalAuthorizeData(rec)
             /\ Unexpired(rec, now)
             => LET got == LoadAuthorizeResult(authorizeTable, code, now,
                                               TRUE)
                IN  /\ got.err = NoErr
                    /\ EqualAuthorizeData(got.val, rec)
                    /\ \A c \in Callers :
                          /\ callers[c].call
                                = MethodCall("LoadAuthorize", code, TRUE, TRUE)
                          /\ callers[c].step = "returned"
                          => /\ callers[c].err = NoErr
                             /\ EqualAuthorizeData(callers[c].val, rec))

\* C33 witness: both callers loaded the code, then both removed it: each
\* holds the record, both RemoveAuthorize calls returned nil, and the code
\* is no longer stored.
C33_Witness ==
    /\ BothReturned
    /\ \A c \in Callers :
          /\ callers[c].call = MethodCall("RemoveAuthorize", "9999", TRUE, TRUE)
          /\ callers[c].err = NoErr
          /\ callers[c].loaded # Nil
          /\ callers[c].loaded.Code = "9999"
    /\ "9999" \in DOMAIN start.authorize
    /\ "9999" \notin DOMAIN authorizeTable
    /\ Len(log) = 4

-----------------------------------------------------------------------------
(* Expiry over time *)

ExpiringLoads == {"LoadAuthorize", "LoadAccess", "LoadRefresh"}

\* What the load op answers for key at instant t on the present tables, the
\* request served.
LoadOn(op, key, t) ==
    CASE op = "LoadAuthorize" -> LoadAuthorizeResult(authorizeTable, key, t, TRUE)
      [] op = "LoadAccess" -> LoadAccessResult(accessTable, key, Nil, t, TRUE)
      [] op = "LoadRefresh" -> LoadRefreshResult(refreshTable, key, t, TRUE)

\* The saves that write the table the load op reads.
SavesInto(op) ==
    CASE op = "LoadAuthorize" -> {"SaveAuthorize"}
      [] op = "LoadAccess" -> {"SaveAccess"}
      [] op = "LoadRefresh" -> {"SaveAccess", "SaveRefresh"}

\* The item under key in the table of op is past its lifetime at instant t.
PastLifetime(op, key, t) ==
    /\ key \in DOMAIN TableOf(op)
    /\ Before(ExpireAt(TableOf(op)[key].json), t)

\* A load answers ErrTokenExpired exactly for a stored item that decodes and
\* is past its lifetime, and then without the record; an item past its
\* lifetime is never answered with a record; a key that is not stored is
\* answered with the not-found error of the table.
ExpiredIsPastLifetime ==
    \A op \in ExpiringLoads :
       /\ \A key \in DOMAIN TableOf(op) :
             LET r == LoadOn(op, key, now)
             IN  /\ r.err = ErrTokenExpired => PastLifetime(op, key, now)
                 /\ PastLifetime(op, key, now)
                       => /\ r.val = Nil
                          /\ r.err \in {ErrTokenExpired, UnmarshalTypeError}
                 /\ r.err = ErrTokenExpired
                       => \A t \in Later : LoadOn(op, key, t).err = ErrTokenExpired
       /\ \A key \in (Codes \cup Tokens) \ DOMAIN TableOf(op) :
             LoadOn(op, key, now) = [err |-> NotFoundOf(op), val |-> Nil]

\* A step leaves an item that is past its lifetime as it is, or deletes it,
\* or is a save that writes its key; the clock does not run backwards.
PastLifetimeKept ==
    /\ now' >= now
    /\ \A op \in ExpiringLoads : \A key \in DOMAIN TableOf(op) :
          PastLifetime(op, key, now)
             => \/ key \notin DOMAIN TableOf(op)'
                \/ TableOf(op)'[key] = TableOf(op)[key]
                \/ /\ last'.op \in SavesInto(op)
                   /\ \/ last'.key = key
                      \/ /\ last'.op = "SaveAccess"
                         /\ TableOf(op)'[key].json.AccessToken = last'.key

\* C34: expiry is monotone in time. Once a load on a key has answered
\* ErrTokenExpired, the item is past its lifetime; no step other than a save
\* that writes the key changes such an item except by deleting it, and the
\* clock never runs backwards; so every later served load on the key answers
\* ErrTokenExpired or the not-found error, never the record.
C34_ExpiryMonotone ==
    /\ []ExpiredIsPastLifetime
    /\ [][PastLifetimeKept]_vars
    /\ []((last.op \in ExpiringLoads /\ last.err = ErrTokenExpired)
             => PastLifetime(last.op, last.key, now))

\* C34 witness: LoadAuthorize answered ErrTokenExpired for a code that is
\* still stored at the last instant of the clock, and a further load of it
\* answers ErrTokenExpired again.
C34_Witness ==
    /\ last.op = "LoadAuthorize"
    /\ last.err = ErrTokenExpired
    /\ last.val = Nil
    /\ now = MaxTime
    /\ last.key \in DOMAIN authorizeTable
    /\ LoadOn("LoadAuthorize", last.key, now).err = ErrTokenExpired

-----------------------------------------------------------------------------
(* Access tokens and refresh tokens: two key spaces *)

\* CreateStorageConfig: the names of the access and the refresh table differ.
SeparateTables == TableNameOf("LoadAccess") # TableNameOf("LoadRefresh")

\* A string stored only as an access token is no refresh token, and a
\* string stored only as a refresh token is no access token.
OnlyInOwnTable ==
    \A token \in Tokens :
       /\ token \in DOMAIN accessTable \ DOMAIN refreshTable
             => LoadRefreshResult(refreshTable, token, now, TRUE)
                   = [err |-> ErrRefreshNotFound, val |-> Nil]
       /\ token \in DOMAIN refreshTable \ DOMAIN accessTable
             => \A createUserData \in ConfigInputs :
                   LoadAccessResult(accessTable, token, createUserData, now, TRUE)
                      = [err |-> ErrAccessNotFound, val |-> Nil]

\* What the last load of a token answered for a string that is not stored in
\* its own table, whatever the other table holds.
LoadedFromOwnTable ==
    /\ (last.op = "LoadRefresh" /\ Answered /\ last.key \notin DOMAIN refreshTable)
          => last.err = ErrRefreshNotFound /\ last.val = Nil
    /\ (last.op = "LoadAccess" /\ Answered /\ last.key \notin DOMAIN accessTable)
          => last.err = ErrAccessNotFound /\ last.val = Nil

\* A record whose access token is also its refresh token is stored once in
\* each table, and afterwards each of the two items is written and deleted
\* by the methods of its own table only.
TwoIndependentItems ==
    /\ (last'.op = "SaveAccess" /\ last'.err = NoErr
          /\ last'.key \in DOMAIN accessTable'
          /\ accessTable'[last'.key].json.RefreshToken = last'.key)
          => /\ last'.key \in DOMAIN refreshTable'
             /\ refreshTable'[last'.key].token = accessTable'[last'.key].token
    /\ last'.op \in {"RemoveAccess", "LoadAccess", "LoadRefresh"}
          => refreshTable' = refreshTable
    /\ last'.op \in {"RemoveRefresh", "SaveRefresh", "LoadAccess", "LoadRefresh"}
          => accessTable' = accessTable

\* C35: the access table and the refresh table are separate key spaces. A
\* string stored only as an access token is answered ErrRefreshNotFound by
\* LoadRefresh, a string stored only as a refresh token is answered
\* ErrAccessNotFound by LoadAccess, and a record whose two tokens are the
\* same string is held as two items, one in each table, each written and
\* removed through its own table.
C35_SeparateKeySpaces ==
    /\ [](SeparateTables /\ OnlyInOwnTable /\ LoadedFromOwnTable)
    /\ [][TwoIndependentItems]_vars

\* C35 witness: the record whose access token and refresh token are both
\* "2" was saved, its access item was removed, and LoadAccess("2") answers
\* ErrAccessNotFound while the refresh table still holds "2".
C35_Witness ==
    /\ last.op = "LoadAccess"
    /\ last.key = "2"
    /\ last.err = ErrAccessNotFound
    /\ "2" \in DOMAIN refreshTable
    /\ refreshTable["2"].json.AccessToken = "2"
    /\ "2" \notin DOMAIN accessTable

-----------------------------------------------------------------------------
(* Frame of the remove methods *)

\* The access records that name the refresh token as theirs.
NamingRefresh(token) ==
    {k \in DOMAIN accessTable : accessTable[k].json.RefreshToken = token}

\* A remove deletes at most the item under its key in its own table: the
\* other three tables are as before, no key is added to its table, no key
\* but the given one leaves it, and the items that stay are unchanged.
RemoveFrame ==
    \A op \in RemoveOps :
       last'.op = op =>
          /\ \A other \in RemoveOps \ {op} :
                RemovedFrom(other)' = RemovedFrom(other)
          /\ DOMAIN RemovedFrom(op)' \subseteq DOMAIN RemovedFrom(op)
          /\ DOMAIN RemovedFrom(op) \ {last'.key} \subseteq DOMAIN RemovedFrom(op)'
          /\ \A k \in DOMAIN RemovedFrom(op)' :
                RemovedFrom(op)'[k] = RemovedFrom(op)[k]
          /\ now' = now

\* The stored payload carries no nested authorization code and no nested
\* previous access record.
PlainPayload(json) ==
    /\ json.AuthorizeData = JNull
    /\ json.AccessData = JNull

\* After RemoveRefresh(R) every access record that names R is still stored,
\* and LoadAccess answers for it what it answered before: the record, when
\* it was loadable.
AccessOutlivesRefresh ==
    last'.op = "RemoveRefresh" =>
       \A k \in NamingRefresh(last'.key) :
          /\ k \in DOMAIN accessTable'
          /\ \A createUserData \in ConfigInputs :
                LET was == LoadAccessResult(accessTable, k, createUserData, now, TRUE)
                    is == LoadAccessResult(accessTable', k, createUserData, now', TRUE)
                IN  /\ is = was
                    /\ (Unexpired(accessTable[k].json, now) /\ PlainPayload(accessTable[k].json))
                          => /\ is.err = NoErr
                             /\ is.val.AccessToken = k
                             /\ is.val.RefreshToken = last'.key

-----------------------------------------------------------------------------
(* Teardown after partial provisioning *)

\* The last call to return was a CreateSchema whose CreateTable request for
\* the refresh table was rejected.
RefreshCreateRejected ==
    last = Returned("CreateSchema", "", RequestFailure("CreateTable", "refresh"), Nil)

\* The tables after such a CreateSchema: all but the refresh table.
PartlyProvisioned ==
    [name \in TableNames |-> IF name = "refresh" THEN "ABSENT" ELSE "ACTIVE"]

\* A DropSchema that runs on the partly provisioned tables.
TeardownOfPartial == RefreshCreateRejected /\ call.op = "DropSchema"

\* After the rejected request the first three tables of CreateSchema exist
\* and the refresh table does not; while a DropSchema runs on them, the
\* refresh table stays missing, the client table stays ACTIVE with its
\* items, and DeleteTable is requested for access, authorize and refresh at
\* most.
PartialTeardownState ==
    /\ (RefreshCreateRejected /\ call = Idle) => schema = PartlyProvisioned
    /\ TeardownOfPartial =>
          /\ schema["refresh"] = "ABSENT"
          /\ schema["client"] = "ACTIVE"
          /\ IsPrefix(Requested("DeleteTable"), <<"access", "authorize", "refresh">>)
          /\ call.i <= 3

\* DropSchema returns at the first deletion that fails: the tables after the
\* failing one in its order get no request and keep their status.
StopsAtFirstFailure ==
    (call.op = "DropSchema" /\ call' = Idle /\ last'.err # NoErr) =>
       /\ last'.op = "DropSchema"
       /\ requests'[Len(requests')][2] = DropOrder[call.i]
       /\ \A j \in (call.i + 1)..4 :
             /\ \A r \in 1..Len(requests') : requests'[r][2] # DropOrder[j]
             /\ schema'[DropOrder[j]] = schema[DropOrder[j]]

\* The return of a DropSchema that runs on the partly provisioned tables: it
\* returns an error and the client table exists; when the store serves its
\* request for the refresh table, access and authorize are deleted, the
\* error is ResourceNotFoundException and no item of the client table is
\* touched.
PartialTeardownReturn ==
    /\ (TeardownOfPartial /\ call' = Idle) =>
          /\ last'.op = "DropSchema"
          /\ last'.err # NoErr
          /\ schema'["client"] = "ACTIVE"
          /\ clientTable' = clientTable
    /\ (TeardownOfPartial /\ call.i = 3 /\ call.step = "request"
          /\ DeleteTableRequest(TRUE)) =>
          /\ call' = Idle
          /\ last' = Returned("DropSchema", "", ResourceNotFoundException, Nil)
          /\ Requested("DeleteTable")' = <<"access", "authorize", "refresh">>
          /\ schema' = [name \in TableNames |->
                           IF name = "client" THEN "ACTIVE" ELSE "ABSENT"]

\* C37: DropSchema deletes in the order access, authorize, refresh, client
\* and stops at the first deletion that fails; after a CreateSchema whose
\* CreateTable request for the refresh table was rejected, with access,
\* authorize and client created, DropSchema deletes access and authorize,
\* fails on the missing refresh table, returns that error and leaves the
\* client table in existence.
C37_TeardownAfterPartial ==
    /\ [](IsPrefix(Requested("DeleteTable"), DropOrder) /\ PartialTeardownState)
    /\ [][StopsAtFirstFailure /\ PartialTeardownReturn]_vars

\* C37 witness: DropSchema returned ResourceNotFoundException after
\* DeleteTable requests for access, authorize and refresh; access and
\* authorize are gone, refresh was never there, and the client table is
\* ACTIVE.
C37_Witness ==
    /\ call = Idle
    /\ last = Returned("DropSchema", "", ResourceNotFoundException, Nil)
    /\ Requested("DeleteTable") = <<"access", "authorize", "refresh">>
    /\ schema = [name \in TableNames |->
                    IF name = "client" THEN "ACTIVE" ELSE "ABSENT"]

====
